---------------------------- MODULE Spec2Model ----------------------------
(***************************************************************************)
(* A model of rlox: the single-pass compiler (src/src/compiler.rs), the    *)
(* value and object model (src/src/value.rs), the chunk (src/src/chunk.rs) *)
(* and the virtual machine (src/src/vm.rs).                                *)
(*                                                                         *)
(* Conventions.  Indices are 0-based as in the source (ip, slot_offset,    *)
(* stack index, local index); At(s, i) reads the element the source calls  *)
(* s[i].  Every `&mut self` method is an operator from the record of the   *)
(* object's fields to the record after the call; a method that returns a   *)
(* value leaves it in the field `ret`.  A reference-counted allocation is  *)
(* an index into `heap`.  An interned string allocation is identified by   *)
(* the interner that made it and its contents, because an interner holds   *)
(* exactly one allocation per distinct content.                            *)
(***************************************************************************)
EXTENDS Integers, Sequences, FiniteSets, TLC

\* ------------------------------------------------------------------ helpers

At(s, i) == s[i + 1]

Last(s) == s[Len(s)]

Front(s) == SubSeq(s, 1, Len(s) - 1)

SetAt(s, i, v) == [s EXCEPT ![i + 1] = v]

\* Option<usize>::None of Local.depth.
NoDepth == -1

\* Option<Token>::None of Parser.current / Parser.previous.
NoToken == [type |-> "None", lexeme |-> "", line |-> 0]

\* ------------------------------------------------------------------ chunk.rs

\* OpCode, with the discriminants of the enum; Print_ is OpCode::Print.
OpCode ==
  [ Constant |-> 0, Nil |-> 1, True |-> 2, False |-> 3, Pop |-> 4,
    GetLocal |-> 5, SetLocal |-> 6, GetGlobal |-> 7, DefineGlobal |-> 8,
    SetGlobal |-> 9, GetUpvalue |-> 10, SetUpvalue |-> 11, GetProperty |-> 12,
    SetProperty |-> 13, GetSuper |-> 14, Equal |-> 15, Greater |-> 16,
    Less |-> 17, Add |-> 18, Subtract |-> 19, Multiply |-> 20, Divide |-> 21,
    Not |-> 22, Negate |-> 23, Print_ |-> 24, Jump |-> 25, JumpIfFalse |-> 26,
    Loop |-> 27, Call |-> 28, Invoke |-> 29, SuperInvoke |-> 30,
    Closure |-> 31, CloseUpvalue |-> 32, Return |-> 33, Class |-> 34,
    Inherit |-> 35, Method |-> 36 ]

\* OpCode::from_byte: Some(op) for 0..=36, None otherwise.
from_byte_is_some(byte) == byte \in 0 .. 36

Chunk_new == [code |-> <<>>, lines |-> <<>>, constants |-> <<>>]

\* A write that records no line for the byte.
Chunk_write_without_line(chunk, byte, line) ==
  [chunk EXCEPT !.code = Append(@, byte)]

Chunk_write(chunk, byte, line) ==
  [chunk EXCEPT !.code = Append(@, byte), !.lines = Append(@, line)]

\* add_constant returns constants.len() - 1 after the push.
Chunk_add_constant(chunk, value) ==
  [chunk EXCEPT !.constants = Append(@, value)]

Chunk_count(chunk) == Len(chunk.code)

\* ------------------------------------------------------------------ value.rs

Nil == [t |-> "Nil"]

Bool(b) == [t |-> "Bool", b |-> b]

Number(n) == [t |-> "Number", n |-> n]

\* Value::Obj(Rc<Obj::String(Rc<str>)>): rc names the interner that allocated
\* the Rc<str>, s its contents.
String(s, rc) == [t |-> "String", s |-> s, rc |-> rc]

\* Value::Obj(Rc<Obj::Function(Rc<Function>)>), only ever a chunk constant.
FunctionValue(f) == [t |-> "Function", f |-> f]

\* Value::Obj(Rc<Obj::Native>), made once by define_native.
NativeValue(name) == [t |-> "Native", name |-> name]

\* Value::Obj of a Closure, Class, Instance or BoundMethod allocation.
Obj(ref) == [t |-> "Obj", ref |-> ref]

Function_new == [arity |-> 0, upvalue_count |-> 0, chunk |-> Chunk_new, name |-> ""]

is_falsey(v) ==
  CASE v.t = "Nil" -> TRUE
    [] v.t = "Bool" -> ~v.b
    [] OTHER -> FALSE

\* StringInterner::intern: the set of contents that have an allocation.
intern(strings, s) == strings \cup {s}


\* --------------------------------------------------------------- compiler.rs
\* The compiler state c is the Compiler struct: the scanner (tokens, pos), the
\* Parser (current, previous, had_error, panic_mode), the chain of
\* FunctionCompilers (fcs, innermost last; `enclosing` is the element before),
\* the chain of ClassCompilers (classes, innermost last) and the interner
\* (interner, the contents it holds; rc, its identity).  errors is stderr.

\* Rust runs the statements of a method in program order.  A LET definition is
\* evaluated where it is first used; a method that ends in <<c1, ..., r>>[n]
\* has its steps c1, ... evaluated first, in their order, and is r.

Precedence ==
  [ None |-> 0, Assignment |-> 1, Or |-> 2, And |-> 3, Equality |-> 4,
    Comparison |-> 5, Term |-> 6, Factor |-> 7, Unary |-> 8, Call |-> 9,
    Primary |-> 10 ]

Precedence_next(p) == IF p = Precedence.Primary THEN Precedence.Primary ELSE p + 1

U8_MAX == 255

U16_MAX == 65535

\* vm::U8_COUNT = u8::MAX as usize + 1
U8_COUNT == U8_MAX + 1

\* A loop of many turns is evaluated 2^Halvings turns at a time.
Halvings == 8

RECURSIVE self(_, _), expression(_), block(_), block_loop(_),
          compile_loop(_), print_statement(_), return_statement(_),
          if_statement(_), while_statement(_), for_statement(_),
          advance_loop(_), end_scope_loop(_), synchronize_loop(_),
          emit_upvalue_data(_, _, _), emit_upvalue_range(_, _, _, _),
          function_params(_),
          function_params_turns(_, _), argument_list_turns(_, _, _),
          function_param(_), argument(_, _),
          function_params_more(_, _), function_params_rest(_),
          argument_list_more(_, _), argument_list_rest(_),
          resolve_local(_, _), add_upvalue(_, _, _), fun_declaration(_),
          method(_), class_methods(_), number(_, _), literal(_, _),
          string(_, _), variable(_, _), this_(_, _), grouping(_, _),
          unary(_, _), binary(_, _), and_(_, _), or_(_, _),
          argument_list_loop(_, _),
          declaration(_),
          expression_statement(_),
          call_infix(_, _),
          argument_list(_),
          infix_loop(_, _, _),
          resolve_upvalue(_, _)

\* Scanner::scan_token: the next token of the source; Eof at the end, again
\* and again.
scan_token(c) ==
  IF c.pos < Len(c.tokens)
    THEN [c EXCEPT !.pos = @ + 1, !.ret = c.tokens[c.pos + 1]]
    ELSE [c EXCEPT !.ret = [type |-> "Eof", lexeme |-> "", line |-> 0]]

\* An error_at that reports in panic mode as well.
error_at_in_panic_mode(c, token, message) ==
  [c EXCEPT !.panic_mode = TRUE, !.had_error = TRUE,
            !.errors = Append(@, <<message>>)]

error_at(c, token, message) ==
  IF c.panic_mode
    THEN c
    ELSE [c EXCEPT !.panic_mode = TRUE, !.had_error = TRUE,
                   !.errors = Append(@, <<message>>)]

\* error: reports at parser.previous, and does nothing when there is none.
error(c, message) ==
  IF c.previous.type # "None" THEN error_at(c, c.previous, message) ELSE c

error_at_current(c, message) ==
  IF c.current.type # "None" THEN error_at(c, c.current, message) ELSE c

advance_loop(c) ==
  LET s == scan_token(c) IN
  IF s.ret.type # "Error"
    THEN [s EXCEPT !.current = s.ret]
    ELSE advance_loop(error_at(s, s.ret, s.ret.lexeme))

advance(c) == advance_loop([c EXCEPT !.previous = c.current, !.current = NoToken])

check(c, token_type) == c.current.type = token_type

consume(c, token_type, message) ==
  IF c.current.type = token_type THEN advance(c) ELSE error_at_current(c, message)

\* match_token: ret is the bool it returns.
match_token(c, token_type) ==
  IF ~check(c, token_type)
    THEN [c EXCEPT !.ret = FALSE]
    ELSE [advance(c) EXCEPT !.ret = TRUE]

current_fc(c) == Last(c.fcs)

current_chunk(c) == current_fc(c).function.chunk

emit_byte(c, byte) ==
  LET line == IF c.previous.type # "None" THEN c.previous.line ELSE 0 IN
  [c EXCEPT !.fcs[Len(c.fcs)].function.chunk = Chunk_write(@, byte, line)]

emit_bytes(c, byte1, byte2) == emit_byte(emit_byte(c, byte1), byte2)

\* An emit_return that returns nil from every function.
emit_return_nil(c) == emit_byte(emit_byte(c, OpCode.Nil), OpCode.Return)

emit_return(c) ==
  LET c1 == IF current_fc(c).function_type = "Initializer"
              THEN emit_bytes(c, OpCode.GetLocal, 0)
              ELSE emit_byte(c, OpCode.Nil)
  IN emit_byte(c1, OpCode.Return)

\* make_constant: ret is the u8 it returns.
make_constant(c, value) ==
  LET c1 == [c EXCEPT !.fcs[Len(c.fcs)].function.chunk = Chunk_add_constant(@, value)]
      constant == Len(current_chunk(c1).constants) - 1
  IN IF constant > U8_MAX
       THEN [error(c1, "Too many constants in one chunk.") EXCEPT !.ret = 0]
       ELSE [c1 EXCEPT !.ret = constant]

emit_constant(c, value) ==
  LET c1 == self("make_constant", <<c, value>>) IN emit_bytes(c1, OpCode.Constant, c1.ret)

\* emit_jump: ret is the offset of the two placeholder bytes.
emit_jump(c, instruction) ==
  LET c1 == emit_byte(emit_byte(emit_byte(c, instruction), U8_MAX), U8_MAX)
  IN [c1 EXCEPT !.ret = Chunk_count(current_chunk(c1)) - 2]

\* (x as u16).to_be_bytes()
be_high(x) == (x % (U16_MAX + 1)) \div (U8_MAX + 1)

be_low(x) == (x % (U16_MAX + 1)) % (U8_MAX + 1)

emit_loop(c, loop_start) ==
  LET c1 == emit_byte(c, OpCode.Loop)
      offset == Chunk_count(current_chunk(c1)) - loop_start + 2
      c2 == IF offset > U16_MAX THEN error(c1, "Loop body too large.") ELSE c1
  IN emit_byte(emit_byte(c2, be_high(offset)), be_low(offset))

\* A patch_jump that forgets the two operand bytes of the jump itself.
patch_jump_from_operand(c, offset) ==
  LET jump == Chunk_count(current_chunk(c)) - offset
      c1 == IF jump > U16_MAX THEN error(c, "Too much code to jump over.") ELSE c
  IN [c1 EXCEPT !.fcs[Len(c.fcs)].function.chunk.code =
        SetAt(SetAt(@, offset, be_high(jump)), offset + 1, be_low(jump))]

patch_jump(c, offset) ==
  LET jump == Chunk_count(current_chunk(c)) - offset - 2
      c1 == IF jump > U16_MAX THEN error(c, "Too much code to jump over.") ELSE c
  IN [c1 EXCEPT !.fcs[Len(c.fcs)].function.chunk.code =
        SetAt(SetAt(@, offset, be_high(jump)), offset + 1, be_low(jump))]

\* end_compiler: ret is the finished Function; the enclosing FunctionCompiler,
\* if any, becomes current.
end_compiler(c) ==
  LET c1 == emit_return(c) IN
  [c1 EXCEPT !.ret = current_fc(c1).function, !.fcs = Front(c1.fcs)]

begin_scope(c) == [c EXCEPT !.fcs[Len(c.fcs)].scope_depth = @ + 1]

RECURSIVE end_scope_loop_pops(_)

\* An end_scope loop that emits POP for a captured local as well.
end_scope_loop_pops(c) ==
  IF current_fc(c).locals = <<>>
    THEN c
    ELSE LET local == Last(current_fc(c).locals) IN
         IF local.depth # NoDepth /\ local.depth > current_fc(c).scope_depth
           THEN end_scope_loop_pops([emit_byte(c, OpCode.Pop)
                                       EXCEPT !.fcs[Len(c.fcs)].locals = Front(@)])
           ELSE c

end_scope_loop(c) ==
  IF current_fc(c).locals = <<>>
    THEN c
    ELSE LET local == Last(current_fc(c).locals) IN
         IF local.depth # NoDepth /\ local.depth > current_fc(c).scope_depth
           THEN LET c1 == IF local.is_captured
                            THEN emit_byte(c, OpCode.CloseUpvalue)
                            ELSE emit_byte(c, OpCode.Pop)
                IN end_scope_loop([c1 EXCEPT !.fcs[Len(c.fcs)].locals = Front(@)])
           ELSE c

end_scope(c) == end_scope_loop([c EXCEPT !.fcs[Len(c.fcs)].scope_depth = @ - 1])

identifier_constant(c, name) ==
  self("make_constant", <<[c EXCEPT !.interner = intern(@, name)], String(name, c.rc)>>)

add_local(c, name) ==
  IF Len(current_fc(c).locals) >= U8_COUNT
    THEN error(c, "Too many local variables in function.")
    ELSE [c EXCEPT !.fcs[Len(c.fcs)].locals =
            Append(@, [name |-> name, depth |-> NoDepth, is_captured |-> FALSE])]

\* declare_variable's scan of the locals from the last one while the depth
\* is None or >= scope_depth (take_while), for one of that name (any).
RECURSIVE has_duplicate(_, _, _)
has_duplicate(locals, scope_depth, name) ==
  \E i \in DOMAIN locals :
    /\ locals[i].name = name
    /\ \A j \in i .. Len(locals) :
         locals[j].depth = NoDepth \/ locals[j].depth >= scope_depth

declare_variable(c) ==
  IF current_fc(c).scope_depth = 0
    THEN c
    ELSE LET name == c.previous.lexeme
             fc == current_fc(c)
             c1 == IF has_duplicate(fc.locals, fc.scope_depth, name)
                     THEN error(c, "Already a variable with this name in this scope.")
                     ELSE c
         IN add_local(c1, name)

mark_initialized(c) ==
  IF current_fc(c).scope_depth = 0 \/ current_fc(c).locals = <<>>
    THEN c
    ELSE [c EXCEPT !.fcs[Len(c.fcs)].locals[Len(current_fc(c).locals)].depth =
            current_fc(c).scope_depth]

define_variable(c, global) ==
  IF current_fc(c).scope_depth > 0
    THEN mark_initialized(c)
    ELSE emit_bytes(c, OpCode.DefineGlobal, global)

\* parse_variable: ret is the u8 it returns.
parse_variable(c, error_msg) ==
  LET c1 == self("declare_variable", <<self("consume", <<c, "Identifier", error_msg>>)>>) IN
  IF current_fc(c1).scope_depth > 0
    THEN [c1 EXCEPT !.ret = 0]
    ELSE self("identifier_constant", <<c1, c1.previous.lexeme>>)


\* The newest local named `name` (1-based position, 0 when there is none).
RECURSIVE find_local(_, _)
find_local(locals, name) ==
  LET named == {i \in DOMAIN locals : locals[i].name = name}
  IN IF named = {} THEN 0 ELSE CHOOSE i \in named : \A j \in named : j <= i

\* Option<u8>::None of resolve_local / resolve_upvalue.
NoSlot == -1

\* A resolve_local that counts the locals from one.
resolve_local_from_one(c, name) ==
  LET locals == current_fc(c).locals
      i == find_local(locals, name)
  IN IF i = 0 THEN [c EXCEPT !.ret = NoSlot]
     ELSE IF locals[i].depth = NoDepth
       THEN [error(c, "Can't read local variable in its own initializer.")
               EXCEPT !.ret = NoSlot]
       ELSE [c EXCEPT !.ret = i % U8_COUNT]

\* resolve_local: ret is Some(i) or None.
resolve_local(c, name) ==
  LET locals == current_fc(c).locals
      i == find_local(locals, name)
  IN IF i = 0 THEN [c EXCEPT !.ret = NoSlot]
     ELSE IF locals[i].depth = NoDepth
       THEN [error(c, "Can't read local variable in its own initializer.")
               EXCEPT !.ret = NoSlot]
       ELSE [c EXCEPT !.ret = (i - 1) % U8_COUNT]

\* The position of (index, is_local) in upvalues[..upvalue_count], 0 if absent.
RECURSIVE upvalue_position(_, _, _, _)
upvalue_position(upvalues, n, index, is_local) ==
  LET same == {i \in 1 .. n : upvalues[i].index = index
                                /\ upvalues[i].is_local = is_local}
  IN IF same = {} THEN 0 ELSE CHOOSE i \in same : \A j \in same : i <= j

\* An add_upvalue that does not look for the pair among the upvalues it has.
add_upvalue_appends_again(c, index, is_local) ==
  LET upvalue_count == current_fc(c).function.upvalue_count
  IN IF upvalue_count >= U8_COUNT
       THEN [error(c, "Too many closure variables in function.") EXCEPT !.ret = 0]
       ELSE [c EXCEPT !.fcs[Len(c.fcs)].upvalues =
                        Append(@, [index |-> index, is_local |-> is_local]),
                      !.fcs[Len(c.fcs)].function.upvalue_count = @ + 1,
                      !.ret = upvalue_count % U8_COUNT]

\* add_upvalue: ret is the u8 it returns.
add_upvalue(c, index, is_local) ==
  LET fc == current_fc(c)
      upvalue_count == fc.function.upvalue_count
      i == upvalue_position(fc.upvalues, upvalue_count, index, is_local)
  IN IF i # 0 THEN [c EXCEPT !.ret = i - 1]
     ELSE IF upvalue_count >= U8_COUNT
       THEN [error(c, "Too many closure variables in function.") EXCEPT !.ret = 0]
       ELSE [c EXCEPT !.fcs[Len(c.fcs)].upvalues =
                        Append(@, [index |-> index, is_local |-> is_local]),
                      !.fcs[Len(c.fcs)].function.upvalue_count = @ + 1,
                      !.ret = upvalue_count % U8_COUNT]

\* resolve_upvalue: ret is Some(i) or None.  The recursion runs on temp_state, a
\* fresh Compiler whose `current` is the enclosing FunctionCompiler and whose
\* parser has no previous token, no error and its own flags; only the
\* FunctionCompiler chain comes back from it.
resolve_upvalue(c, name) ==
  IF Len(c.fcs) < 2 THEN [c EXCEPT !.ret = NoSlot]
  ELSE
    LET e == Len(c.fcs) - 1
        locals == c.fcs[e].locals
        found == find_local(locals, name)
        local_result == IF found # 0 /\ locals[found].depth # NoDepth THEN found ELSE 0
    IN IF local_result # 0
         THEN add_upvalue([c EXCEPT !.fcs[e].locals[local_result].is_captured = TRUE],
                          (local_result - 1) % U8_COUNT, TRUE)
         ELSE
           LET temp_state == [c EXCEPT !.tokens = <<>>, !.pos = 0,
                                       !.current = NoToken, !.previous = NoToken,
                                       !.had_error = FALSE, !.panic_mode = FALSE,
                                       !.errors = <<>>,
                                       !.fcs = Front(c.fcs), !.classes = <<>>,
                                       !.interner = {}]
               r == resolve_upvalue(temp_state, name)
               c1 == [c EXCEPT !.fcs = Append(r.fcs, current_fc(c))]
           IN IF r.ret # NoSlot
                THEN add_upvalue(c1, r.ret, FALSE)
                ELSE [c1 EXCEPT !.ret = NoSlot]

\* str::parse::<f64> of a Number lexeme, for the integer lexemes of the model:
\* a lexeme is its sequence of decimal digits.
RECURSIVE parse_number(_)
parse_number(lexeme) ==
  IF lexeme = <<>> THEN 0 ELSE 10 * parse_number(Front(lexeme)) + Last(lexeme)

get_rule(token_type) ==
  CASE token_type = "LeftParen" ->
         [prefix |-> "grouping", infix |-> "call", precedence |-> Precedence.Call]
    [] token_type = "Dot" ->
         [prefix |-> "None", infix |-> "dot", precedence |-> Precedence.Call]
    [] token_type = "Minus" ->
         [prefix |-> "unary", infix |-> "binary", precedence |-> Precedence.Term]
    [] token_type = "Plus" ->
         [prefix |-> "None", infix |-> "binary", precedence |-> Precedence.Term]
    [] token_type \in {"Slash", "Star"} ->
         [prefix |-> "None", infix |-> "binary", precedence |-> Precedence.Factor]
    [] token_type = "Number" ->
         [prefix |-> "number", infix |-> "None", precedence |-> Precedence.None]
    [] token_type \in {"False", "True", "Nil"} ->
         [prefix |-> "literal", infix |-> "None", precedence |-> Precedence.None]
    [] token_type = "Bang" ->
         [prefix |-> "unary", infix |-> "None", precedence |-> Precedence.None]
    [] token_type \in {"BangEqual", "EqualEqual"} ->
         [prefix |-> "None", infix |-> "binary", precedence |-> Precedence.Equality]
    [] token_type \in {"Greater", "GreaterEqual", "Less", "LessEqual"} ->
         [prefix |-> "None", infix |-> "binary", precedence |-> Precedence.Comparison]
    [] token_type = "String" ->
         [prefix |-> "string", infix |-> "None", precedence |-> Precedence.None]
    [] token_type = "Identifier" ->
         [prefix |-> "variable", infix |-> "None", precedence |-> Precedence.None]
    [] token_type = "And" ->
         [prefix |-> "None", infix |-> "and_", precedence |-> Precedence.And]
    [] token_type = "Or" ->
         [prefix |-> "None", infix |-> "or_", precedence |-> Precedence.Or]
    [] token_type = "This" ->
         [prefix |-> "this_", infix |-> "None", precedence |-> Precedence.None]
    [] token_type = "Super" ->
         [prefix |-> "super_", infix |-> "None", precedence |-> Precedence.None]
    [] OTHER ->
         [prefix |-> "None", infix |-> "None", precedence |-> Precedence.None]

number(c, can_assign) == self("emit_constant", <<c, Number(parse_number(c.previous.lexeme))>>)

literal(c, can_assign) ==
  CASE c.previous.type = "False" -> emit_byte(c, OpCode.False)
    [] c.previous.type = "Nil" -> emit_byte(c, OpCode.Nil)
    [] c.previous.type = "True" -> emit_byte(c, OpCode.True)

\* A String lexeme is <<quote, contents, quote>>; &lexeme[1..lexeme.len() - 1]
\* is what lies between the first and the last element.
string(c, can_assign) ==
  LET lexeme == c.previous.lexeme
      string_value == At(SubSeq(lexeme, 2, Len(lexeme) - 1), 0)
  IN self("emit_constant", <<[c EXCEPT !.interner = intern(@, string_value)],
                   String(string_value, c.rc)>>)



variable(c, can_assign) == self("named_variable", <<c, c.previous.lexeme, can_assign>>)

named_variable(c, name, can_assign) ==
  LET l == resolve_local(c, name)
      u == resolve_upvalue(l, name)
      g == self("identifier_constant", <<u, name>>)
      c1 == IF l.ret # NoSlot THEN l ELSE IF u.ret # NoSlot THEN u ELSE g
      get_op == IF l.ret # NoSlot THEN OpCode.GetLocal
                ELSE IF u.ret # NoSlot THEN OpCode.GetUpvalue ELSE OpCode.GetGlobal
      set_op == IF l.ret # NoSlot THEN OpCode.SetLocal
                ELSE IF u.ret # NoSlot THEN OpCode.SetUpvalue ELSE OpCode.SetGlobal
      arg == c1.ret
      m == IF can_assign THEN self("match_token", <<c1, "Equal">>) ELSE [c1 EXCEPT !.ret = FALSE]
  IN IF m.ret
       THEN LET e == expression(m) IN <<e, emit_bytes(e, set_op, arg)>>[2]
       ELSE emit_bytes(m, get_op, arg)

this_(c, can_assign) ==
  IF c.classes = <<>>
    THEN error(c, "Can't use 'this' outside of a class.")
    ELSE variable(c, FALSE)

\* argument_list: ret is the u8 it returns.
\* One turn of the loop of argument_list: ret is arg_count after it, and
\* whether a comma was matched, so that the loop goes on.
argument(c, arg_count) ==
  LET c1 == expression(c)
      c2 == IF arg_count = 255
              THEN error(c1, "Can't have more than 255 arguments.")
              ELSE c1
      n == IF arg_count = 255 THEN arg_count ELSE arg_count + 1
      m == self("match_token", <<c2, "Comma">>)
  IN <<c1, [m EXCEPT !.ret = [more |-> m.ret, arg_count |-> n]]>>[2]

\* The turns that follow the turns h: at most 2^k more of them when a comma
\* was matched.
argument_list_more(h, k) ==
  IF h.ret.more THEN argument_list_turns(h, h.ret.arg_count, k) ELSE h

\* At most 2^k turns of the loop (the turns are grouped by halves so that
\* evaluating n of them nests as deep as log n).
argument_list_turns(c, arg_count, k) ==
  IF k = 0 THEN argument(c, arg_count)
  ELSE argument_list_more(argument_list_turns(c, arg_count, k - 1), k - 1)

argument_list_rest(h) ==
  IF h.ret.more THEN argument_list_loop(h, h.ret.arg_count)
  ELSE [h EXCEPT !.ret = h.ret.arg_count]

\* The loop of argument_list, 2^Halvings turns at a time until no comma
\* follows.  ret is arg_count.
argument_list_loop(c, arg_count) ==
  argument_list_rest(argument_list_turns(c, arg_count, Halvings))

\* A super_ that asks the outermost class whether it has a superclass.
super_of_outermost_class(c, can_assign) ==
  LET c1 == IF c.classes = <<>>
              THEN error(c, "Can't use 'super' outside of a class.")
              ELSE IF ~c.classes[1].has_superclass
                THEN error(c, "Can't use 'super' in a class with no superclass.")
                ELSE c
      c2 == self("consume", <<c1, "Dot", "Expect '.' after 'super'.">>)
      c3 == self("consume", <<c2, "Identifier", "Expect superclass method name.">>)
      c4 == self("identifier_constant", <<c3, c3.previous.lexeme>>)
      name_constant == c4.ret
      c5 == self("named_variable", <<c4, "this", FALSE>>)
      m == self("match_token", <<c5, "LeftParen">>)
  IN IF m.ret
       THEN LET a == self("argument_list", <<m>>)
                arg_count == a.ret
                c6 == self("named_variable", <<a, "super", FALSE>>)
            IN <<a, emit_byte(emit_bytes(c6, OpCode.SuperInvoke,
                                                   name_constant), arg_count)>>[2]
       ELSE emit_bytes(self("named_variable", <<m, "super", FALSE>>), OpCode.GetSuper, name_constant)

argument_list(c) ==
  LET c1 == IF ~check(c, "RightParen")
              THEN argument_list_loop(c, 0)
              ELSE [c EXCEPT !.ret = 0]
      arg_count == c1.ret
  IN <<c1, [self("consume", <<c1, "RightParen", "Expect ')' after arguments.">>)
                        EXCEPT !.ret = arg_count]>>[2]

super_(c, can_assign) ==
  LET c1 == IF c.classes = <<>>
              THEN error(c, "Can't use 'super' outside of a class.")
              ELSE IF ~Last(c.classes).has_superclass
                THEN error(c, "Can't use 'super' in a class with no superclass.")
                ELSE c
      c2 == self("consume", <<c1, "Dot", "Expect '.' after 'super'.">>)
      c3 == self("consume", <<c2, "Identifier", "Expect superclass method name.">>)
      c4 == self("identifier_constant", <<c3, c3.previous.lexeme>>)
      name_constant == c4.ret
      c5 == self("named_variable", <<c4, "this", FALSE>>)
      m == self("match_token", <<c5, "LeftParen">>)
  IN IF m.ret
       THEN LET a == self("argument_list", <<m>>)
                arg_count == a.ret
                c6 == self("named_variable", <<a, "super", FALSE>>)
            IN <<a, emit_byte(emit_bytes(c6, OpCode.SuperInvoke,
                                                   name_constant), arg_count)>>[2]
       ELSE emit_bytes(self("named_variable", <<m, "super", FALSE>>), OpCode.GetSuper, name_constant)

grouping(c, can_assign) ==
  LET e == expression(c) IN
  <<e, self("consume", <<e, "RightParen", "Expect ')' after expression.">>)>>[2]

call_infix(c, can_assign) ==
  LET a == argument_list(c) IN <<a, emit_bytes(a, OpCode.Call, a.ret)>>[2]

dot(c, can_assign) ==
  LET c1 == self("consume", <<c, "Identifier", "Expect property name after '.'.">>)
      c2 == self("identifier_constant", <<c1, c1.previous.lexeme>>)
      name_constant == c2.ret
      m1 == IF can_assign THEN self("match_token", <<c2, "Equal">>) ELSE [c2 EXCEPT !.ret = FALSE]
      m2 == self("match_token", <<m1, "LeftParen">>)
  IN IF m1.ret
       THEN LET e == expression(m1) IN
            <<e, emit_bytes(e, OpCode.SetProperty, name_constant)>>[2]
       ELSE IF m2.ret
         THEN LET a == self("argument_list", <<m2>>) IN
              <<a, emit_byte(emit_bytes(a, OpCode.Invoke, name_constant),
                                       a.ret)>>[2]
         ELSE emit_bytes(m2, OpCode.GetProperty, name_constant)

unary(c, can_assign) ==
  LET operator_type == c.previous.type
      c1 == self("parse_precedence", <<c, Precedence.Unary>>)
  IN <<c1, CASE operator_type = "Minus" -> emit_byte(c1, OpCode.Negate)
         [] operator_type = "Bang" -> emit_byte(c1, OpCode.Not)>>[2]

binary(c, can_assign) ==
  LET operator_type == c.previous.type
      rule == get_rule(operator_type)
      c1 == self("parse_precedence", <<c, Precedence_next(rule.precedence)>>)
  IN <<c1, CASE operator_type = "Plus" -> emit_byte(c1, OpCode.Add)
         [] operator_type = "Minus" -> emit_byte(c1, OpCode.Subtract)
         [] operator_type = "Star" -> emit_byte(c1, OpCode.Multiply)
         [] operator_type = "Slash" -> emit_byte(c1, OpCode.Divide)
         [] operator_type = "BangEqual" -> emit_bytes(c1, OpCode.Equal, OpCode.Not)
         [] operator_type = "EqualEqual" -> emit_byte(c1, OpCode.Equal)
         [] operator_type = "Greater" -> emit_byte(c1, OpCode.Greater)
         [] operator_type = "GreaterEqual" -> emit_bytes(c1, OpCode.Less, OpCode.Not)
         [] operator_type = "Less" -> emit_byte(c1, OpCode.Less)
         [] operator_type = "LessEqual" -> emit_bytes(c1, OpCode.Greater, OpCode.Not)>>[2]

and_(c, can_assign) ==
  LET j == self("emit_jump", <<c, OpCode.JumpIfFalse>>)
      end_jump == j.ret
      c1 == self("parse_precedence", <<emit_byte(j, OpCode.Pop), Precedence.And>>)
  IN <<c1, self("patch_jump", <<c1, end_jump>>)>>[2]

or_(c, can_assign) ==
  LET j1 == self("emit_jump", <<c, OpCode.JumpIfFalse>>)
      else_jump == j1.ret
      j2 == self("emit_jump", <<j1, OpCode.Jump>>)
      end_jump == j2.ret
      c1 == emit_byte(self("patch_jump", <<j2, else_jump>>), OpCode.Pop)
      c2 == self("parse_precedence", <<c1, Precedence.Or>>)
  IN <<c2, self("patch_jump", <<c2, end_jump>>)>>[2]

\* The call of a ParseFn found in the rule table.
apply_rule(fn, c, can_assign) ==
  CASE fn = "grouping" -> grouping(c, can_assign)
    [] fn = "call" -> call_infix(c, can_assign)
    [] fn = "dot" -> self("dot", <<c, can_assign>>)
    [] fn = "unary" -> unary(c, can_assign)
    [] fn = "binary" -> binary(c, can_assign)
    [] fn = "number" -> number(c, can_assign)
    [] fn = "literal" -> literal(c, can_assign)
    [] fn = "string" -> string(c, can_assign)
    [] fn = "variable" -> variable(c, can_assign)
    [] fn = "and_" -> and_(c, can_assign)
    [] fn = "or_" -> or_(c, can_assign)
    [] fn = "this_" -> this_(c, can_assign)
    [] fn = "super_" -> self("super_", <<c, can_assign>>)

\* The while loop of parse_precedence over the infix operators.
infix_loop(c, precedence, can_assign) ==
  IF precedence <= get_rule(c.current.type).precedence
    THEN LET c1 == self("advance", <<c>>)
             infix_rule == get_rule(c1.previous.type).infix
             c2 == IF infix_rule # "None"
                     THEN self("apply_rule", <<infix_rule, c1, can_assign>>)
                     ELSE c1
         IN <<c2, infix_loop(c2, precedence, can_assign)>>[2]
    ELSE c

parse_precedence(c, precedence) ==
  LET c1 == self("advance", <<c>>)
      prefix_rule == get_rule(c1.previous.type).prefix
  IN IF prefix_rule = "None"
       THEN error(c1, "Expect expression.")
       ELSE LET can_assign == precedence <= Precedence.Assignment
                c2 == infix_loop(self("apply_rule", <<prefix_rule, c1, can_assign>>),
                                 precedence, can_assign)
                m == IF can_assign THEN self("match_token", <<c2, "Equal">>)
                                   ELSE [c2 EXCEPT !.ret = FALSE]
            IN <<c2, IF m.ret THEN error(m, "Invalid assignment target.") ELSE m>>[2]

expression(c) == self("parse_precedence", <<c, Precedence.Assignment>>)


block_loop(c) ==
  IF ~check(c, "RightBrace") /\ ~check(c, "Eof")
    THEN LET d == declaration(c) IN <<d, block_loop(d)>>[2]
    ELSE c

block(c) ==
  LET b == block_loop(c) IN
  <<b, self("consume", <<b, "RightBrace", "Expect '}' after block.">>)>>[2]

\* The parameter loop of function.
\* One turn of the loop over the parameters: ret is whether a comma was
\* matched, so that the loop goes on.
function_param(c) ==
  LET c1 == [c EXCEPT !.fcs[Len(c.fcs)].function.arity = @ + 1]
      c2 == IF current_fc(c1).function.arity > 255
              THEN error_at_current(c1, "Can't have more than 255 parameters.")
              ELSE c1
      c3 == self("parse_variable", <<c2, "Expect parameter name.">>)
      c4 == self("define_variable", <<c3, c3.ret>>)
  IN self("match_token", <<c4, "Comma">>)

\* The turns that follow the turns h: at most 2^k more of them when a comma
\* was matched.
function_params_more(h, k) ==
  IF h.ret THEN function_params_turns(h, k) ELSE h

\* At most 2^k turns of the loop.
function_params_turns(c, k) ==
  IF k = 0 THEN function_param(c)
  ELSE function_params_more(function_params_turns(c, k - 1), k - 1)

function_params_rest(h) == IF h.ret THEN function_params(h) ELSE h

\* The loop over the parameters, 2^Halvings turns at a time until no comma
\* follows.
function_params(c) == function_params_rest(function_params_turns(c, Halvings))

\* The bytes that follow OP_CLOSURE: (is_local, index) per upvalue.
\* A function that emits CLOSURE and its constant and no pairs after them.
emit_upvalue_data_omitted(c, upvalue_data, i) == c

\* The turns i .. j of the loop that follow the turns h.
emit_upvalue_rest(h, upvalue_data, i, j) ==
  <<h, emit_upvalue_range(h, upvalue_data, i, j)>>[2]

\* The turns i .. j of the loop, by halves.
emit_upvalue_range(c, upvalue_data, i, j) ==
  IF i > j THEN c
  ELSE IF i = j
    THEN emit_byte(emit_byte(c, IF upvalue_data[i].is_local THEN 1 ELSE 0),
                   upvalue_data[i].index)
    ELSE emit_upvalue_rest(
           emit_upvalue_range(c, upvalue_data, i, (i + j) \div 2),
           upvalue_data, (i + j) \div 2 + 1, j)

emit_upvalue_data(c, upvalue_data, i) ==
  emit_upvalue_range(c, upvalue_data, i, Len(upvalue_data))

function(c, function_type) ==
  LET compiler ==
        [ function |-> [Function_new EXCEPT !.name = c.previous.lexeme],
          function_type |-> function_type,
          locals |-> << [ name |-> IF function_type # "Function" THEN "this" ELSE "",
                          depth |-> 0, is_captured |-> FALSE ] >>,
          upvalues |-> <<>>,
          scope_depth |-> 0 ]
      c1 == begin_scope([c EXCEPT !.fcs = Append(@, compiler)])
      c2 == self("consume", <<c1, "LeftParen", "Expect '(' after function name.">>)
      c3 == IF ~check(c2, "RightParen") THEN function_params(c2) ELSE c2
      c4 == self("consume", <<c3, "RightParen", "Expect ')' after parameters.">>)
      c5 == self("consume", <<c4, "LeftBrace", "Expect '{' before function body.">>)
      c6 == block(c5)
      upvalue_data == current_fc(c6).upvalues
      c7 == self("end_compiler", <<c6>>)
      c8 == self("make_constant", <<c7, FunctionValue(c7.ret)>>)
      c9 == emit_bytes(c8, OpCode.Closure, c8.ret)
  IN <<c3, c6, emit_upvalue_data(c9, upvalue_data, 1)>>[3]

method(c) ==
  LET c1 == self("consume", <<c, "Identifier", "Expect method name.">>)
      name == c1.previous.lexeme
      c2 == self("identifier_constant", <<c1, name>>)
      constant == c2.ret
      function_type == IF name = "init" THEN "Initializer" ELSE "Method"
      f == self("function", <<c2, function_type>>)
  IN <<f, emit_bytes(f, OpCode.Method, constant)>>[2]

\* The method loop of class_declaration.
class_methods(c) ==
  IF ~check(c, "RightBrace") /\ ~check(c, "Eof")
    THEN LET m == method(c) IN <<m, class_methods(m)>>[2]
    ELSE c

class_declaration(c) ==
  LET c1 == self("consume", <<c, "Identifier", "Expect class name.">>)
      class_name == c1.previous.lexeme
      c2 == self("identifier_constant", <<c1, class_name>>)
      name_constant == c2.ret
      c3 == self("declare_variable", <<c2>>)
      c4 == self("define_variable", <<emit_bytes(c3, OpCode.Class, name_constant), name_constant>>)
      c5 == [c4 EXCEPT !.classes = Append(@, [has_superclass |-> FALSE])]
      m == self("match_token", <<c5, "Less">>)
      c6 == IF m.ret
              THEN LET s1 == self("consume", <<m, "Identifier", "Expect superclass name.">>)
                       s2 == variable(s1, FALSE)
                       s3 == IF class_name = s2.previous.lexeme
                               THEN error(s2, "A class can't inherit from itself.")
                               ELSE s2
                       s4 == self("define_variable", <<add_local(begin_scope(s3), "super"), 0>>)
                       s5 == emit_byte(self("named_variable", <<s4, class_name, FALSE>>),
                                       OpCode.Inherit)
                   IN [s5 EXCEPT !.classes[Len(s5.classes)].has_superclass = TRUE]
              ELSE m
      c7 == self("named_variable", <<c6, class_name, FALSE>>)
      c8 == self("consume", <<c7, "LeftBrace", "Expect '{' before class body.">>)
      c9 == class_methods(c8)
      c10 == self("consume", <<c9, "RightBrace", "Expect '}' after class body.">>)
      c11 == emit_byte(c10, OpCode.Pop)
      c12 == IF Last(c11.classes).has_superclass THEN self("end_scope", <<c11>>) ELSE c11
  IN <<c6, c9, [c12 EXCEPT !.classes = Front(@)]>>[3]

fun_declaration(c) ==
  LET c1 == self("parse_variable", <<c, "Expect function name.">>)
      global == c1.ret
      c2 == self("function", <<mark_initialized(c1), "Function">>)
  IN <<c2, self("define_variable", <<c2, global>>)>>[2]

var_declaration(c) ==
  LET c1 == self("parse_variable", <<c, "Expect variable name.">>)
      global == c1.ret
      m == self("match_token", <<c1, "Equal">>)
      c2 == IF m.ret THEN expression(m) ELSE emit_byte(m, OpCode.Nil)
      c3 == self("consume", <<c2, "Semicolon", "Expect ';' after variable declaration.">>)
  IN <<c2, self("define_variable", <<c3, global>>)>>[2]

expression_statement(c) ==
  LET e == expression(c) IN
  <<e, emit_byte(self("consume", <<e, "Semicolon", "Expect ';' after expression.">>),
                           OpCode.Pop)>>[2]

print_statement(c) ==
  LET e == expression(c) IN
  <<e, emit_byte(self("consume", <<e, "Semicolon", "Expect ';' after value.">>),
                           OpCode.Print_)>>[2]

return_statement(c) ==
  LET c1 == IF current_fc(c).function_type = "Script"
              THEN error(c, "Can't return from top-level code.")
              ELSE c
      m == self("match_token", <<c1, "Semicolon">>)
  IN IF m.ret
       THEN self("emit_return", <<m>>)
       ELSE LET c2 == IF current_fc(m).function_type = "Initializer"
                        THEN error(m, "Can't return a value from an initializer.")
                        ELSE m
                e == expression(c2)
                c3 == self("consume", <<e, "Semicolon", "Expect ';' after return value.">>)
            IN <<e, emit_byte(c3, OpCode.Return)>>[2]

if_statement(c) ==
  LET c1 == self("consume", <<c, "LeftParen", "Expect '(' after 'if'.">>)
      e == expression(c1)
      c2 == self("consume", <<e, "RightParen", "Expect ')' after condition.">>)
      j1 == self("emit_jump", <<c2, OpCode.JumpIfFalse>>)
      then_jump == j1.ret
      c3 == self("statement", <<emit_byte(j1, OpCode.Pop)>>)
      j2 == self("emit_jump", <<c3, OpCode.Jump>>)
      else_jump == j2.ret
      c4 == emit_byte(self("patch_jump", <<j2, then_jump>>), OpCode.Pop)
      m == self("match_token", <<c4, "Else">>)
      c5 == IF m.ret THEN self("statement", <<m>>) ELSE m
  IN <<e, c3, c5, self("patch_jump", <<c5, else_jump>>)>>[4]

while_statement(c) ==
  LET loop_start == Chunk_count(current_chunk(c))
      c1 == self("consume", <<c, "LeftParen", "Expect '(' after 'while'.">>)
      e == expression(c1)
      c2 == self("consume", <<e, "RightParen", "Expect ')' after condition.">>)
      j == self("emit_jump", <<c2, OpCode.JumpIfFalse>>)
      exit_jump == j.ret
      c3 == self("statement", <<emit_byte(j, OpCode.Pop)>>)
      c4 == self("emit_loop", <<c3, loop_start>>)
  IN <<e, c3, emit_byte(self("patch_jump", <<c4, exit_jump>>), OpCode.Pop)>>[3]


\* Option<usize>::None of for_statement's exit_jump.
NoJump == -1

for_statement(c) ==
  LET c1 == self("consume", <<begin_scope(c), "LeftParen", "Expect '(' after 'for'.">>)
      m1 == self("match_token", <<c1, "Semicolon">>)
      m2 == self("match_token", <<m1, "Var">>)
      c2 == IF m1.ret THEN m1
            ELSE IF m2.ret THEN self("var_declaration", <<m2>>)
            ELSE expression_statement(m2)
      loop_start == Chunk_count(current_chunk(c2))
      m3 == self("match_token", <<c2, "Semicolon">>)
      e1 == IF m3.ret THEN m3 ELSE expression(m3)
      j == self("emit_jump", <<self("consume", <<e1, "Semicolon", "Expect ';' after loop condition.">>),
                     OpCode.JumpIfFalse>>)
      exit_jump == IF m3.ret THEN NoJump ELSE j.ret
      c3 == IF m3.ret THEN m3 ELSE emit_byte(j, OpCode.Pop)
      m4 == self("match_token", <<c3, "RightParen">>)
      body_j == self("emit_jump", <<m4, OpCode.Jump>>)
      body_jump == body_j.ret
      increment_start == Chunk_count(current_chunk(body_j))
      e2 == IF m4.ret THEN m4 ELSE expression(body_j)
      c4 == self("consume", <<emit_byte(e2, OpCode.Pop), "RightParen",
                    "Expect ')' after for clauses.">>)
      c5 == IF m4.ret THEN m4 ELSE self("patch_jump", <<self("emit_loop", <<c4, loop_start>>), body_jump>>)
      loop_start2 == IF m4.ret THEN loop_start ELSE increment_start
      body == self("statement", <<c5>>)
      c6 == self("emit_loop", <<body, loop_start2>>)
      c7 == IF exit_jump # NoJump
              THEN emit_byte(self("patch_jump", <<c6, exit_jump>>), OpCode.Pop)
              ELSE c6
  IN <<c2, e1, e2, body, self("end_scope", <<c7>>)>>[5]

statement(c) ==
  LET m1 == self("match_token", <<c, "Print">>)
      m2 == self("match_token", <<m1, "For">>)
      m3 == self("match_token", <<m2, "If">>)
      m4 == self("match_token", <<m3, "Return">>)
      m5 == self("match_token", <<m4, "While">>)
      m6 == self("match_token", <<m5, "LeftBrace">>)
  IN CASE m1.ret -> print_statement(m1)
       [] ~m1.ret /\ m2.ret -> for_statement(m2)
       [] ~m1.ret /\ ~m2.ret /\ m3.ret -> if_statement(m3)
       [] ~m1.ret /\ ~m2.ret /\ ~m3.ret /\ m4.ret -> return_statement(m4)
       [] ~m1.ret /\ ~m2.ret /\ ~m3.ret /\ ~m4.ret /\ m5.ret -> while_statement(m5)
       [] ~m1.ret /\ ~m2.ret /\ ~m3.ret /\ ~m4.ret /\ ~m5.ret /\ m6.ret ->
            LET b == block(begin_scope(m6)) IN <<b, self("end_scope", <<b>>)>>[2]
       [] OTHER -> expression_statement(m6)

synchronize_loop(c) ==
  IF c.current.type # "Eof"
    THEN IF c.previous.type = "Semicolon" THEN c
         ELSE IF c.current.type \in
                   {"Class", "Fun", "Var", "For", "If", "While", "Print", "Return"}
           THEN c
           ELSE synchronize_loop(advance(c))
    ELSE c

\* A synchronize that skips no token.
synchronize_at_once(c) == [c EXCEPT !.panic_mode = FALSE]

synchronize(c) == synchronize_loop([c EXCEPT !.panic_mode = FALSE])

declaration(c) ==
  LET m1 == self("match_token", <<c, "Class">>)
      m2 == self("match_token", <<m1, "Fun">>)
      m3 == self("match_token", <<m2, "Var">>)
      c1 == CASE m1.ret -> self("class_declaration", <<m1>>)
              [] ~m1.ret /\ m2.ret -> fun_declaration(m2)
              [] ~m1.ret /\ ~m2.ret /\ m3.ret -> self("var_declaration", <<m3>>)
              [] OTHER -> self("statement", <<m3>>)
  IN IF c1.panic_mode THEN self("synchronize", <<c1>>) ELSE c1

\* The while loop of compile.
compile_loop(c) ==
  LET m == self("match_token", <<c, "Eof">>) IN
  IF m.ret THEN m
  ELSE LET d == declaration(m) IN <<d, compile_loop(d)>>[2]

\* Compiler::compile(source): ret is Ok(function) or Err(()).  tokens is what
\* the scanner yields for the source, rc the identity of the compiler's
\* StringInterner.
compile(tokens, rc) ==
  LET compiler ==
        [ function |-> Function_new,
          function_type |-> "Script",
          locals |-> << [name |-> "", depth |-> 0, is_captured |-> FALSE] >>,
          upvalues |-> <<>>,
          scope_depth |-> 0 ]
      state ==
        [ tokens |-> tokens, pos |-> 0,
          current |-> NoToken, previous |-> NoToken,
          had_error |-> FALSE, panic_mode |-> FALSE, errors |-> <<>>,
          fcs |-> <<compiler>>, classes |-> <<>>,
          interner |-> {}, rc |-> rc, ret |-> 0 ]
      c1 == compile_loop(self("advance", <<state>>))
      c2 == self("end_compiler", <<c1>>)
  IN <<c1, [ ok |-> ~c2.had_error, function |-> c2.ret, errors |-> c2.errors ]>>[2]

\* function, up to the `{` of the body: the new FunctionCompiler becomes
\* current, its scope begins and its parameters become locals.
function_begin(c, function_type) ==
  LET compiler_ ==
        [ function |-> [Function_new EXCEPT !.name = c.previous.lexeme],
          function_type |-> function_type,
          locals |-> << [ name |-> IF function_type # "Function" THEN "this" ELSE "",
                          depth |-> 0, is_captured |-> FALSE ] >>,
          upvalues |-> <<>>,
          scope_depth |-> 0 ]
      c1 == begin_scope([c EXCEPT !.fcs = Append(@, compiler_)])
      c2 == self("consume", <<c1, "LeftParen", "Expect '(' after function name.">>)
      c3 == IF ~check(c2, "RightParen") THEN function_params(c2) ELSE c2
      c4 == self("consume", <<c3, "RightParen", "Expect ')' after parameters.">>)
  IN <<c3, self("consume", <<c4, "LeftBrace", "Expect '{' before function body.">>)>>[2]

\* class_declaration, up to the loop over the methods.
class_begin(c) ==
  LET c1 == self("consume", <<c, "Identifier", "Expect class name.">>)
      class_name == c1.previous.lexeme
      c2 == self("identifier_constant", <<c1, class_name>>)
      name_constant == c2.ret
      c3 == self("declare_variable", <<c2>>)
      c4 == self("define_variable", <<emit_bytes(c3, OpCode.Class, name_constant), name_constant>>)
      c5 == [c4 EXCEPT !.classes = Append(@, [has_superclass |-> FALSE])]
      m == self("match_token", <<c5, "Less">>)
      c6 == IF m.ret
              THEN LET s1 == self("consume", <<m, "Identifier", "Expect superclass name.">>)
                       s2 == variable(s1, FALSE)
                       s3 == IF class_name = s2.previous.lexeme
                               THEN error(s2, "A class can't inherit from itself.")
                               ELSE s2
                       s4 == self("define_variable", <<add_local(begin_scope(s3), "super"), 0>>)
                       s5 == emit_byte(self("named_variable", <<s4, class_name, FALSE>>),
                                       OpCode.Inherit)
                   IN [s5 EXCEPT !.classes[Len(s5.classes)].has_superclass = TRUE]
              ELSE m
      c7 == self("named_variable", <<c6, class_name, FALSE>>)
  IN <<c6, self("consume", <<c7, "LeftBrace", "Expect '{' before class body.">>)>>[2]

\* class_declaration, from the end of the loop over the methods.
class_end(c) ==
  LET c10 == consume(c, "RightBrace", "Expect '}' after class body.")
      c11 == emit_byte(c10, OpCode.Pop)
      c12 == IF Last(c11.classes).has_superclass THEN end_scope(c11) ELSE c11
  IN [c12 EXCEPT !.classes = Front(@)]

\* The end of declaration, where block or class_declaration returns to it.
declaration_end(c) == IF c.panic_mode THEN synchronize(c) ELSE c

\* block, from the end of its loop, and the end_scope of statement after it.
block_end(c) ==
  end_scope(consume(c, "RightBrace", "Expect '}' after block."))

\* `self.method(args)`: the calls of the methods of the Compiler that are made
\* from many places go through here.
self(callee, a) ==
  CASE callee = "advance" -> advance(a[1])
    [] callee = "consume" -> consume(a[1], a[2], a[3])
    [] callee = "match_token" -> match_token(a[1], a[2])
    [] callee = "emit_return" -> emit_return(a[1])
    [] callee = "make_constant" -> make_constant(a[1], a[2])
    [] callee = "emit_constant" -> emit_constant(a[1], a[2])
    [] callee = "emit_jump" -> emit_jump(a[1], a[2])
    [] callee = "emit_loop" -> emit_loop(a[1], a[2])
    [] callee = "patch_jump" -> patch_jump(a[1], a[2])
    [] callee = "end_compiler" -> end_compiler(a[1])
    [] callee = "end_scope" -> end_scope(a[1])
    [] callee = "identifier_constant" -> identifier_constant(a[1], a[2])
    [] callee = "declare_variable" -> declare_variable(a[1])
    [] callee = "define_variable" -> define_variable(a[1], a[2])
    [] callee = "parse_variable" -> parse_variable(a[1], a[2])
    [] callee = "resolve_upvalue" -> resolve_upvalue(a[1], a[2])
    [] callee = "named_variable" -> named_variable(a[1], a[2], a[3])
    [] callee = "argument_list" -> argument_list(a[1])
    [] callee = "super_" -> super_(a[1], a[2])
    [] callee = "call_infix" -> call_infix(a[1], a[2])
    [] callee = "dot" -> dot(a[1], a[2])
    [] callee = "apply_rule" -> apply_rule(a[1], a[2], a[3])
    [] callee = "infix_loop" -> infix_loop(a[1], a[2], a[3])
    [] callee = "parse_precedence" -> parse_precedence(a[1], a[2])
    [] callee = "function" -> function(a[1], a[2])
    [] callee = "class_declaration" -> class_declaration(a[1])
    [] callee = "var_declaration" -> var_declaration(a[1])
    [] callee = "expression_statement" -> expression_statement(a[1])
    [] callee = "statement" -> statement(a[1])
    [] callee = "synchronize" -> synchronize(a[1])
    [] callee = "declaration" -> declaration(a[1])
    [] callee = "compile" -> compile(a[1], a[2])
    [] callee = "variable" -> variable(a[1], a[2])
    [] callee = "method" -> method(a[1])
    [] callee = "function_begin" -> function_begin(a[1], a[2])
    [] callee = "class_begin" -> class_begin(a[1])


\* ------------------------------------------------------------------ sources
\* A source is the token sequence the scanner yields for it.  A Number lexeme
\* is its digits, a String lexeme its contents between the two quotes.

Token(type, lexeme) == [type |-> type, lexeme |-> lexeme, line |-> 1]

Id(name) == Token("Identifier", name)

Num(digits) == Token("Number", digits)

Str(contents) == Token("String", <<"\"", contents, "\"">>)


\* -------------------------------------------------------------------- vm.rs
\* The machine state vm is the VM struct (frames, stack, globals,
\* open_upvalues, interner) and what it points to and writes: heap, the
\* reference-counted allocations (Closure, Upvalue, Class, Instance,
\* BoundMethod) by index; out and err, the lines written to stdout and the
\* messages written to stderr; status, where `interpret` stands: "running"
\* inside `run`, "Ok", "CompileError" or "RuntimeError" once it has returned,
\* "Panic" when the process aborted on a Rust panic.

FRAMES_MAX == 64

STACK_MAX == FRAMES_MAX * U8_COUNT

\* Option<Value>::None of Upvalue.closed.
NoValue == [t |-> "None"]

EmptyMap == [k \in {} |-> Nil]

\* HashMap::insert
Map_insert(m, key, value) ==
  [k \in DOMAIN m \cup {key} |-> IF k = key THEN value ELSE m[k]]

\* HashMap::remove of a set of keys
Map_remove(m, keys) == [k \in DOMAIN m \ keys |-> m[k]]

\* Rc::new: ret is the new allocation.
alloc(vm, object) == [vm EXCEPT !.heap = Append(@, object), !.ret = Len(vm.heap) + 1]

is_kind(vm, v, kind) == v.t = "Obj" /\ vm.heap[v.ref].k = kind

is_instance(vm, v) == is_kind(vm, v, "Instance")

\* impl PartialEq for Value
ValueEq(vm, a, b) ==
  CASE a.t = "Nil" /\ b.t = "Nil" -> TRUE
    [] a.t = "Bool" /\ b.t = "Bool" -> a.b = b.b
    [] a.t = "Number" /\ b.t = "Number" -> a.n = b.n
    [] a.t = "String" /\ b.t = "String" -> a.rc = b.rc /\ a.s = b.s
    [] a.t = "Obj" /\ b.t = "Obj" -> a.ref = b.ref
    [] a.t = "Native" /\ b.t = "Native" -> a.name = b.name
    [] OTHER -> FALSE

\* The allocations a value holds a strong reference to.
ValueRefs(v) == IF v.t = "Obj" THEN {v.ref} ELSE {}

\* The allocations an allocation holds a strong reference to: everything it
\* points to but an Instance's class, which is a Weak.
ObjectRefs(o) ==
  CASE o.k = "Closure" -> {o.upvalues[i] : i \in DOMAIN o.upvalues}
    [] o.k = "Upvalue" -> ValueRefs(o.closed)
    [] o.k = "Class" -> UNION {ValueRefs(o.methods[n]) : n \in DOMAIN o.methods}
    [] o.k = "Instance" -> UNION {ValueRefs(o.fields[n]) : n \in DOMAIN o.fields}
    [] o.k = "BoundMethod" -> ValueRefs(o.receiver) \cup {o.method}

\* The allocations the VM struct itself holds a strong reference to.
RootRefs(vm) ==
  UNION {ValueRefs(vm.stack[i]) : i \in DOMAIN vm.stack}
    \cup UNION {ValueRefs(vm.globals[n]) : n \in DOMAIN vm.globals}
    \cup {vm.frames[i].closure : i \in DOMAIN vm.frames}
    \cup {vm.open_upvalues[i] : i \in DOMAIN vm.open_upvalues}

\* Reference counting: an allocation is dropped when no root and no allocation
\* that is itself not dropped holds it; the allocations of a cycle hold each
\* other and are never dropped.
RECURSIVE Undropped(_, _, _)
Undropped(heap, roots, S) ==
  LET T == {x \in S : x \in roots \/ \E y \in S : x \in ObjectRefs(heap[y])} IN
  IF T = S THEN S ELSE Undropped(heap, roots, T)

StrongCountPositive(vm, ref) ==
  ref \in Undropped(vm.heap, RootRefs(vm), DOMAIN vm.heap)

\* Weak::upgrade(&instance.class).is_some()
upgrade(vm, class) == StrongCountPositive(vm, class)

top_frame(vm) == Last(vm.frames)

frame_closure(vm) == vm.heap[top_frame(vm).closure]

frame_chunk(vm) == frame_closure(vm).function.chunk

push(vm, value) == [vm EXCEPT !.stack = Append(@, value)]

\* pop: ret is the value popped.
pop(vm) == [vm EXCEPT !.stack = Front(@), !.ret = Last(vm.stack)]

peek(vm, distance) == At(vm.stack, Len(vm.stack) - 1 - distance)

\* A reset_stack that forgets the open-upvalue map.
reset_stack_keeps_open_upvalues(vm) ==
  [vm EXCEPT !.stack = <<>>, !.frames = <<>>]

reset_stack(vm) ==
  [vm EXCEPT !.stack = <<>>, !.frames = <<>>, !.open_upvalues = EmptyMap]

\* runtime_error: the message goes to stderr (the backtrace lines are not
\* modelled) and the stacks are reset.
runtime_error(vm, message) == reset_stack([vm EXCEPT !.err = Append(@, message)])

\* `return Err(())` of run.
Failed(vm) == IF vm.status = "Panic" THEN vm ELSE [vm EXCEPT !.status = "RuntimeError"]

\* A Rust panic: an index out of bounds, an unwrap of None, an expect.
Panic(vm) == [vm EXCEPT !.status = "Panic"]

\* read_byte: ret is the byte.
read_byte(vm) ==
  IF vm.status = "Panic" \/ vm.frames = <<>>
       \/ top_frame(vm).ip >= Len(frame_chunk(vm).code)
    THEN [Panic(vm) EXCEPT !.ret = 0]
    ELSE [vm EXCEPT !.frames[Len(vm.frames)].ip = @ + 1,
                    !.ret = At(frame_chunk(vm).code, top_frame(vm).ip)]

\* read_short: ret is the u16.
read_short(vm) ==
  LET code == frame_chunk(vm).code
      ip == top_frame(vm).ip
  IN IF vm.status = "Panic" \/ vm.frames = <<>> \/ ip + 1 >= Len(code)
       THEN [Panic(vm) EXCEPT !.ret = 0]
       ELSE [vm EXCEPT !.frames[Len(vm.frames)].ip = @ + 2,
                       !.ret = At(code, ip) * (U8_MAX + 1) + At(code, ip + 1)]

\* read_constant: ret is the constant.
read_constant(vm) ==
  LET r == read_byte(vm) IN
  IF r.status = "Panic" \/ r.ret >= Len(frame_chunk(vm).constants)
    THEN [Panic(r) EXCEPT !.ret = Nil]
    ELSE [r EXCEPT !.ret = At(frame_chunk(vm).constants, r.ret)]

\* read_string: ret is the contents of the Rc<str> (the key of a HashMap whose
\* keys compare by contents).
read_string(vm) ==
  LET r == read_constant(vm) IN
  IF r.ret.t = "String" THEN [r EXCEPT !.ret = r.ret.s]
                        ELSE [Panic(r) EXCEPT !.ret = ""]


\* Upvalue::get_value; the index stack[self.location] panics out of bounds.
get_value(vm, upvalue) ==
  LET u == vm.heap[upvalue] IN
  IF u.closed # NoValue THEN [vm EXCEPT !.ret = u.closed]
  ELSE IF u.location >= Len(vm.stack) THEN [Panic(vm) EXCEPT !.ret = Nil]
  ELSE [vm EXCEPT !.ret = At(vm.stack, u.location)]

\* A set_value that writes to the stack slot of a closed upvalue as well.
set_value_through_location(vm, upvalue, value) ==
  LET u == vm.heap[upvalue] IN
  IF u.location >= Len(vm.stack) THEN Panic(vm)
  ELSE [vm EXCEPT !.stack = SetAt(@, u.location, value),
                  !.heap[upvalue].closed = IF u.closed # NoValue THEN value ELSE @]

\* Upvalue::set_value
set_value(vm, upvalue, value) ==
  LET u == vm.heap[upvalue] IN
  IF u.closed # NoValue THEN [vm EXCEPT !.heap[upvalue].closed = value]
  ELSE IF u.location >= Len(vm.stack) THEN Panic(vm)
  ELSE [vm EXCEPT !.stack = SetAt(@, u.location, value)]

\* A capture_upvalue that does not enter the new upvalue in open_upvalues.
capture_upvalue_unregistered(vm, stack_index) ==
  IF stack_index \in DOMAIN vm.open_upvalues
    THEN [vm EXCEPT !.ret = vm.open_upvalues[stack_index]]
    ELSE alloc(vm, [k |-> "Upvalue", location |-> stack_index, closed |-> NoValue])

\* A capture_upvalue that never looks in open_upvalues: every capture makes a
\* cell of its own.
capture_upvalue_unshared(vm, stack_index) ==
  LET a == alloc(vm, [k |-> "Upvalue", location |-> stack_index,
                      closed |-> NoValue])
  IN [a EXCEPT !.open_upvalues = Map_insert(@, stack_index, a.ret)]

\* capture_upvalue: ret is the Rc<RefCell<Upvalue>>.
capture_upvalue(vm, stack_index) ==
  IF stack_index \in DOMAIN vm.open_upvalues
    THEN [vm EXCEPT !.ret = vm.open_upvalues[stack_index]]
    ELSE LET a == alloc(vm, [k |-> "Upvalue", location |-> stack_index,
                             closed |-> NoValue])
         IN [a EXCEPT !.open_upvalues = Map_insert(@, stack_index, a.ret)]

\* A close_upvalues that closes the upvalues above the boundary only.
close_upvalues_above(vm, last) ==
  LET to_close == {location \in DOMAIN vm.open_upvalues : location > last} IN
  IF \E location \in to_close : vm.heap[vm.open_upvalues[location]].location >= Len(vm.stack)
    THEN Panic(vm)
    ELSE [vm EXCEPT
           !.open_upvalues = Map_remove(@, to_close),
           !.heap = [r \in DOMAIN vm.heap |->
                      IF \E location \in to_close : vm.open_upvalues[location] = r
                        THEN [vm.heap[r] EXCEPT !.closed = At(vm.stack, vm.heap[r].location)]
                        ELSE vm.heap[r]]]

\* close_upvalues; the index stack[up.location] panics out of bounds.
close_upvalues(vm, last) ==
  LET to_close == {location \in DOMAIN vm.open_upvalues : location >= last} IN
  IF \E location \in to_close : vm.heap[vm.open_upvalues[location]].location >= Len(vm.stack)
    THEN Panic(vm)
    ELSE [vm EXCEPT
           !.open_upvalues = Map_remove(@, to_close),
           !.heap = [r \in DOMAIN vm.heap |->
                      IF \E location \in to_close : vm.open_upvalues[location] = r
                        THEN [vm.heap[r] EXCEPT !.closed = At(vm.stack, vm.heap[r].location)]
                        ELSE vm.heap[r]]]

\* A call that compares the frame count with > instead of >=.
call_frame_limit_off_by_one(vm, closure, arg_count) ==
  LET arity == vm.heap[closure].function.arity IN
  IF arg_count # arity
    THEN [runtime_error(vm, <<"Expected ", arity, " arguments but got ",
                              arg_count, ".">>) EXCEPT !.ret = FALSE]
  ELSE IF Len(vm.frames) > FRAMES_MAX
    THEN [runtime_error(vm, <<"Stack overflow.">>) EXCEPT !.ret = FALSE]
  ELSE IF Len(vm.stack) - arg_count - 1 < 0
    THEN [Panic(vm) EXCEPT !.ret = FALSE]
  ELSE [vm EXCEPT !.frames = Append(@, [closure |-> closure, ip |-> 0,
                                        slot_offset |-> Len(vm.stack) - arg_count - 1]),
                  !.ret = TRUE]

\* A call whose frame starts one slot too high, at the first argument.
call_window_off_by_one(vm, closure, arg_count) ==
  IF arg_count # vm.heap[closure].function.arity
       \/ Len(vm.frames) >= FRAMES_MAX \/ Len(vm.stack) - arg_count - 1 < 0
    THEN [runtime_error(vm, <<"Stack overflow.">>) EXCEPT !.ret = FALSE]
    ELSE [vm EXCEPT !.frames = Append(@, [closure |-> closure, ip |-> 0,
                                          slot_offset |-> Len(vm.stack) - arg_count]),
                    !.ret = TRUE]

\* A call that does not compare the number of arguments with the arity.
call_without_arity_check(vm, closure, arg_count) ==
  IF Len(vm.frames) >= FRAMES_MAX
    THEN [runtime_error(vm, <<"Stack overflow.">>) EXCEPT !.ret = FALSE]
  ELSE IF Len(vm.stack) - arg_count - 1 < 0
    THEN [Panic(vm) EXCEPT !.ret = FALSE]
  ELSE [vm EXCEPT !.frames = Append(@, [closure |-> closure, ip |-> 0,
                                        slot_offset |-> Len(vm.stack) - arg_count - 1]),
                  !.ret = TRUE]

\* call: ret is the bool it returns.
call(vm, closure, arg_count) ==
  LET arity == vm.heap[closure].function.arity IN
  IF arg_count # arity
    THEN [runtime_error(vm, <<"Expected ", arity, " arguments but got ",
                              arg_count, ".">>) EXCEPT !.ret = FALSE]
  ELSE IF Len(vm.frames) >= FRAMES_MAX
    THEN [runtime_error(vm, <<"Stack overflow.">>) EXCEPT !.ret = FALSE]
  ELSE IF Len(vm.stack) - arg_count - 1 < 0
    THEN [Panic(vm) EXCEPT !.ret = FALSE]
  ELSE [vm EXCEPT !.frames = Append(@, [closure |-> closure, ip |-> 0,
                                        slot_offset |-> Len(vm.stack) - arg_count - 1]),
                  !.ret = TRUE]

\* native::clock: the time it reads is `now`.
clock(arg_count, args, now) == Number(now)

\* A call_value that leaves the class in the callee slot and does not look for
\* an initializer.
call_value_keeps_class(vm, callee, arg_count, now) ==
  CASE is_kind(vm, callee, "Class") ->
         [alloc(vm, [k |-> "Instance", class |-> callee.ref, fields |-> EmptyMap])
            EXCEPT !.ret = TRUE]
    [] is_kind(vm, callee, "BoundMethod") ->
         call([vm EXCEPT !.stack = SetAt(@, Len(vm.stack) - arg_count - 1,
                                         vm.heap[callee.ref].receiver)],
              vm.heap[callee.ref].method, arg_count)
    [] is_kind(vm, callee, "Closure") -> call(vm, callee.ref, arg_count)
    [] callee.t = "Native" ->
         [push([vm EXCEPT !.stack = SubSeq(@, 1, Len(vm.stack) - arg_count - 1)],
               clock(arg_count, <<>>, now)) EXCEPT !.ret = TRUE]
    [] OTHER ->
         [runtime_error(vm, <<"Can only call functions and classes.">>)
            EXCEPT !.ret = FALSE]

\* A call_value that leaves the bound method in the callee slot.
call_value_keeps_bound_method(vm, callee, arg_count, now) ==
  LET slot == Len(vm.stack) - arg_count - 1 IN
  CASE is_kind(vm, callee, "BoundMethod") ->
         IF slot < 0 THEN [Panic(vm) EXCEPT !.ret = FALSE]
         ELSE call(vm, vm.heap[callee.ref].method, arg_count)
    [] is_kind(vm, callee, "Class") ->
         IF slot < 0 THEN [Panic(vm) EXCEPT !.ret = FALSE]
         ELSE LET class == vm.heap[callee.ref]
                  a == alloc(vm, [k |-> "Instance", class |-> callee.ref,
                                  fields |-> EmptyMap])
                  v1 == [a EXCEPT !.stack = SetAt(@, slot, Obj(a.ret))]
              IN IF "init" \in DOMAIN class.methods
                   THEN IF is_kind(v1, class.methods["init"], "Closure")
                          THEN call(v1, class.methods["init"].ref, arg_count)
                          ELSE [v1 EXCEPT !.ret = TRUE]
                   ELSE IF arg_count # 0
                     THEN [runtime_error(v1, <<"Expected 0 arguments but got ",
                                               arg_count, ".">>) EXCEPT !.ret = FALSE]
                     ELSE [v1 EXCEPT !.ret = TRUE]
    [] is_kind(vm, callee, "Closure") -> call(vm, callee.ref, arg_count)
    [] callee.t = "Native" ->
         IF slot < 0 THEN [Panic(vm) EXCEPT !.ret = FALSE]
         ELSE LET args_start == Len(vm.stack) - arg_count
                  result == clock(arg_count,
                                  SubSeq(vm.stack, args_start + 1, Len(vm.stack)), now)
              IN [push([vm EXCEPT !.stack = SubSeq(@, 1, args_start - 1)], result)
                    EXCEPT !.ret = TRUE]
    [] OTHER ->
         [runtime_error(vm, <<"Can only call functions and classes.">>)
            EXCEPT !.ret = FALSE]

\* call_value: ret is the bool it returns.
call_value(vm, callee, arg_count, now) ==
  LET slot == Len(vm.stack) - arg_count - 1 IN
  CASE is_kind(vm, callee, "BoundMethod") ->
         IF slot < 0 THEN [Panic(vm) EXCEPT !.ret = FALSE]
         ELSE call([vm EXCEPT !.stack = SetAt(@, slot, vm.heap[callee.ref].receiver)],
                   vm.heap[callee.ref].method, arg_count)
    [] is_kind(vm, callee, "Class") ->
         IF slot < 0 THEN [Panic(vm) EXCEPT !.ret = FALSE]
         ELSE LET class == vm.heap[callee.ref]
                  a == alloc(vm, [k |-> "Instance", class |-> callee.ref,
                                  fields |-> EmptyMap])
                  v1 == [a EXCEPT !.stack = SetAt(@, slot, Obj(a.ret))]
              IN IF "init" \in DOMAIN class.methods
                   THEN IF is_kind(v1, class.methods["init"], "Closure")
                          THEN call(v1, class.methods["init"].ref, arg_count)
                          ELSE [v1 EXCEPT !.ret = TRUE]
                   ELSE IF arg_count # 0
                     THEN [runtime_error(v1, <<"Expected 0 arguments but got ",
                                               arg_count, ".">>) EXCEPT !.ret = FALSE]
                     ELSE [v1 EXCEPT !.ret = TRUE]
    [] is_kind(vm, callee, "Closure") -> call(vm, callee.ref, arg_count)
    [] callee.t = "Native" ->
         IF slot < 0 THEN [Panic(vm) EXCEPT !.ret = FALSE]
         ELSE LET args_start == Len(vm.stack) - arg_count
                  result == clock(arg_count,
                                  SubSeq(vm.stack, args_start + 1, Len(vm.stack)), now)
              IN [push([vm EXCEPT !.stack = SubSeq(@, 1, args_start - 1)], result)
                    EXCEPT !.ret = TRUE]
    [] OTHER ->
         [runtime_error(vm, <<"Can only call functions and classes.">>)
            EXCEPT !.ret = FALSE]

\* An invoke_from_class that binds the method to the receiver before the call.
invoke_from_class_binding(vm, class, name, arg_count) ==
  LET methods == vm.heap[class].methods IN
  IF name \in DOMAIN methods /\ is_kind(vm, methods[name], "Closure")
    THEN call(alloc(vm, [k |-> "BoundMethod", receiver |-> peek(vm, arg_count),
                         method |-> methods[name].ref]),
              methods[name].ref, arg_count)
    ELSE [runtime_error(vm, <<"Undefined property '", name, "'.">>)
            EXCEPT !.ret = FALSE]

\* invoke_from_class: ret is the bool it returns.
invoke_from_class(vm, class, name, arg_count) ==
  LET methods == vm.heap[class].methods IN
  IF name \in DOMAIN methods /\ is_kind(vm, methods[name], "Closure")
    THEN call(vm, methods[name].ref, arg_count)
    ELSE [runtime_error(vm, <<"Undefined property '", name, "'.">>)
            EXCEPT !.ret = FALSE]

\* invoke: ret is the bool it returns.
invoke(vm, name, arg_count, now) ==
  IF Len(vm.stack) - 1 - arg_count < 0 THEN [Panic(vm) EXCEPT !.ret = FALSE]
  ELSE
    LET receiver == peek(vm, arg_count) IN
    IF ~is_instance(vm, receiver)
      THEN [runtime_error(vm, <<"Only instances have methods.">>) EXCEPT !.ret = FALSE]
      ELSE
        LET instance == vm.heap[receiver.ref] IN
        IF name \in DOMAIN instance.fields
          THEN LET value == instance.fields[name]
                   idx == Len(vm.stack) - arg_count - 1
               IN call_value([vm EXCEPT !.stack = SetAt(@, idx, value)],
                             value, arg_count, now)
          ELSE IF ~upgrade(vm, instance.class)
            THEN [runtime_error(vm, <<"Instance's class has been deallocated.">>)
                    EXCEPT !.ret = FALSE]
            ELSE invoke_from_class(vm, instance.class, name, arg_count)

\* bind_method: ret is the bool it returns.
bind_method(vm, class, name) ==
  LET methods == vm.heap[class].methods IN
  IF name \in DOMAIN methods /\ is_kind(vm, methods[name], "Closure")
    THEN IF vm.stack = <<>> THEN [Panic(vm) EXCEPT !.ret = FALSE]
         ELSE LET p == pop(vm)
                  a == alloc(p, [k |-> "BoundMethod", receiver |-> p.ret,
                                 method |-> methods[name].ref])
              IN [push(a, Obj(a.ret)) EXCEPT !.ret = TRUE]
    ELSE [runtime_error(vm, <<"Undefined property '", name, "'.">>)
            EXCEPT !.ret = FALSE]

\* A define_method that replaces the method of that name in every class that
\* has one, as if INHERIT had shared the entries.
define_method_in_every_table(vm, name) ==
  IF Len(vm.stack) < 2 \/ ~is_kind(vm, peek(vm, 1), "Class") THEN Panic(vm)
  ELSE LET p == pop(vm) IN
       [p EXCEPT !.heap =
          [r \in DOMAIN p.heap |->
             IF p.heap[r].k = "Class"
                  /\ (r = peek(p, 0).ref \/ name \in DOMAIN p.heap[r].methods)
               THEN [p.heap[r] EXCEPT !.methods = Map_insert(@, name, p.ret)]
               ELSE p.heap[r]]]

\* define_method
define_method(vm, name) ==
  IF Len(vm.stack) < 2 \/ ~is_kind(vm, peek(vm, 1), "Class") THEN Panic(vm)
  ELSE LET p == pop(vm) IN
       [p EXCEPT !.heap[peek(p, 0).ref].methods = Map_insert(@, name, p.ret)]

\* binary_op, for the operator op of the instruction.
binary_op(vm, op) ==
  IF Len(vm.stack) < 2 THEN Panic(vm)
  ELSE
    LET p1 == pop(vm)
        b == p1.ret
        p2 == pop(p1)
        a == p2.ret
    IN IF a.t = "Number" /\ b.t = "Number"
         THEN push(p2,
                CASE op = OpCode.Greater -> Bool(a.n > b.n)
                  [] op = OpCode.Less -> Bool(a.n < b.n)
                  [] op = OpCode.Add -> Number(a.n + b.n)
                  [] op = OpCode.Subtract -> Number(a.n - b.n)
                  [] op = OpCode.Multiply -> Number(a.n * b.n)
                  [] op = OpCode.Divide /\ b.n # 0 /\ a.n % b.n = 0 ->
                       Number(a.n \div b.n))
         ELSE Failed(runtime_error(p2, <<"Operands must be numbers.">>))


\* impl Display for Value, as the parts of the printed text.
Display(vm, v) ==
  CASE v.t = "Nil" -> <<"nil">>
    [] v.t = "Bool" -> IF v.b THEN <<"true">> ELSE <<"false">>
    [] v.t = "Number" -> <<"number", v.n>>
    [] v.t = "String" -> <<"string", v.s>>
    [] v.t = "Function" -> <<"<fn ", v.f.name, ">">>
    [] v.t = "Native" -> <<"<native fn>">>
    [] v.t = "Obj" ->
         LET o == vm.heap[v.ref] IN
         CASE o.k = "Closure" -> <<"<fn ", o.function.name, ">">>
           [] o.k = "Class" -> <<"class", o.name>>
           [] o.k = "Instance" ->
                IF upgrade(vm, o.class)
                  THEN <<vm.heap[o.class].name, " instance">>
                  ELSE <<"<dropped class> instance">>
           [] o.k = "BoundMethod" -> <<"<fn ", vm.heap[o.method].function.name, ">">>

\* The arms of the match in run.  Each takes the machine after the opcode
\* byte was read and ip advanced past it.

op_constant(vm) == LET r == read_constant(vm) IN push(r, r.ret)

op_nil(vm) == push(vm, Nil)

op_true(vm) == push(vm, Bool(TRUE))

op_false(vm) == push(vm, Bool(FALSE))

op_pop(vm) == IF vm.stack = <<>> THEN Panic(vm) ELSE pop(vm)

op_get_local(vm) ==
  LET r == read_byte(vm)
      index == top_frame(r).slot_offset + r.ret
  IN IF index >= Len(r.stack) THEN Panic(r) ELSE push(r, At(r.stack, index))

op_set_local(vm) ==
  LET r == read_byte(vm)
      offset == top_frame(r).slot_offset + r.ret
  IN IF r.stack = <<>> \/ offset >= Len(r.stack) THEN Panic(r)
     ELSE [r EXCEPT !.stack = SetAt(@, offset, peek(r, 0))]

op_get_global(vm) ==
  LET r == read_string(vm)
      name == r.ret
  IN IF name \in DOMAIN r.globals
       THEN push(r, r.globals[name])
       ELSE Failed(runtime_error(r, <<"Undefined variable '", name, "'.">>))

op_define_global(vm) ==
  LET r == read_string(vm)
      name == r.ret
  IN IF r.stack = <<>> THEN Panic(r)
     ELSE LET p == pop(r) IN [p EXCEPT !.globals = Map_insert(@, name, p.ret)]

\* A SET_GLOBAL that inserts before it looks the name up.
op_set_global_inserts_anyway(vm) ==
  LET r == read_string(vm)
      name == r.ret
  IN IF r.stack = <<>> THEN Panic(r)
     ELSE IF name \notin DOMAIN r.globals
       THEN Failed(runtime_error([r EXCEPT !.globals = Map_insert(@, name, peek(r, 0))],
                                 <<"Undefined variable '", name, "'.">>))
       ELSE [r EXCEPT !.globals = Map_insert(@, name, peek(r, 0))]

op_set_global(vm) ==
  LET r == read_string(vm)
      name == r.ret
  IN IF name \notin DOMAIN r.globals
       THEN Failed(runtime_error(r, <<"Undefined variable '", name, "'.">>))
       ELSE IF r.stack = <<>> THEN Panic(r)
       ELSE [r EXCEPT !.globals = Map_insert(@, name, peek(r, 0))]

op_get_upvalue(vm) ==
  LET r == read_byte(vm)
      upvalues == frame_closure(r).upvalues
  IN IF r.ret >= Len(upvalues) THEN Panic(r)
     ELSE LET g == get_value(r, At(upvalues, r.ret)) IN
          IF g.status = "Panic" THEN g ELSE push(g, g.ret)

op_set_upvalue(vm) ==
  LET r == read_byte(vm)
      upvalues == frame_closure(r).upvalues
  IN IF r.stack = <<>> \/ r.ret >= Len(upvalues) THEN Panic(r)
     ELSE set_value(r, At(upvalues, r.ret), peek(r, 0))

op_get_property(vm) ==
  IF vm.stack = <<>> THEN Panic(vm)
  ELSE IF ~is_instance(vm, peek(vm, 0))
    THEN Failed(runtime_error(vm, <<"Only instances have properties.">>))
    ELSE
      LET instance == vm.heap[peek(vm, 0).ref]
          r == read_string(vm)
          name == r.ret
      IN IF name \in DOMAIN instance.fields
           THEN push(pop(r), instance.fields[name])
           ELSE IF ~upgrade(r, instance.class)
             THEN Failed(runtime_error(r, <<"Instance's class has been deallocated.">>))
             ELSE LET b == bind_method(r, instance.class, name) IN
                  IF b.ret THEN b ELSE Failed(b)

op_set_property(vm) ==
  IF Len(vm.stack) < 2 THEN Panic(vm)
  ELSE IF ~is_instance(vm, peek(vm, 1))
    THEN Failed(runtime_error(vm, <<"Only instances have fields.">>))
    ELSE
      LET r == read_string(vm)
          name == r.ret
          p == pop(r)
          value == p.ret
          instance_rc == peek(p, 0).ref
          v1 == [p EXCEPT !.heap[instance_rc].fields = Map_insert(@, name, value)]
      IN push(pop(v1), value)

\* The `match self.pop()` of GetSuper and SuperInvoke: ret is the superclass,
\* or 0 after the runtime error.
pop_superclass(vm) ==
  IF vm.stack = <<>> THEN [Panic(vm) EXCEPT !.ret = 0]
  ELSE LET p == pop(vm) IN
       IF is_kind(vm, p.ret, "Class")
         THEN [p EXCEPT !.ret = p.ret.ref]
         ELSE [Failed(runtime_error(p, <<"Superclass must be a class.">>))
                 EXCEPT !.ret = 0]

op_get_super(vm) ==
  LET r == read_string(vm)
      name == r.ret
      s == pop_superclass(r)
  IN IF s.ret = 0 THEN s
     ELSE LET b == bind_method(s, s.ret, name) IN IF b.ret THEN b ELSE Failed(b)

op_equal(vm) ==
  IF Len(vm.stack) < 2 THEN Panic(vm)
  ELSE LET p1 == pop(vm)
           b == p1.ret
           p2 == pop(p1)
           a == p2.ret
       IN push(p2, Bool(ValueEq(vm, a, b)))

op_add(vm) ==
  IF Len(vm.stack) < 2 THEN Panic(vm)
  ELSE
    LET b == peek(vm, 0)
        a == peek(vm, 1)
    IN CASE a.t = "Number" /\ b.t = "Number" -> binary_op(vm, OpCode.Add)
         [] a.t = "String" /\ b.t = "String" ->
              LET result == a.s \o b.s
                  v1 == [pop(pop(vm)) EXCEPT !.interner = intern(@, result)]
              IN push(v1, String(result, 0))
         [] OTHER ->
              Failed(runtime_error(vm, <<"Operands must be two numbers or two strings.">>))

op_greater(vm) == binary_op(vm, OpCode.Greater)

op_less(vm) == binary_op(vm, OpCode.Less)

op_subtract(vm) == binary_op(vm, OpCode.Subtract)

op_multiply(vm) == binary_op(vm, OpCode.Multiply)

op_divide(vm) == binary_op(vm, OpCode.Divide)

op_not(vm) ==
  IF vm.stack = <<>> THEN Panic(vm)
  ELSE LET p == pop(vm) IN push(p, Bool(is_falsey(p.ret)))

op_negate(vm) ==
  IF vm.stack = <<>> THEN Panic(vm)
  ELSE IF peek(vm, 0).t = "Number"
    THEN LET p == pop(vm) IN push(p, Number(0 - p.ret.n))
    ELSE Failed(runtime_error(vm, <<"Operand must be a number.">>))

op_print(vm) ==
  IF vm.stack = <<>> THEN Panic(vm)
  ELSE LET p == pop(vm) IN [p EXCEPT !.out = Append(@, Display(vm, p.ret))]

op_jump(vm) ==
  LET r == read_short(vm) IN
  IF r.status = "Panic" THEN r
  ELSE [r EXCEPT !.frames[Len(r.frames)].ip = @ + r.ret]

\* A JUMP_IF_FALSE that pops the value it tests.
op_jump_if_false_pops(vm) ==
  LET r == read_short(vm) IN
  IF r.status = "Panic" THEN r
  ELSE IF r.stack = <<>> THEN Panic(r)
  ELSE IF is_falsey(peek(r, 0))
    THEN [pop(r) EXCEPT !.frames[Len(r.frames)].ip = @ + r.ret]
    ELSE pop(r)

op_jump_if_false(vm) ==
  LET r == read_short(vm) IN
  IF r.status = "Panic" THEN r
  ELSE IF r.stack = <<>> THEN Panic(r)
  ELSE IF is_falsey(peek(r, 0))
    THEN [r EXCEPT !.frames[Len(r.frames)].ip = @ + r.ret]
    ELSE r

\* The subtraction is on usize: below zero it panics.
op_loop(vm) ==
  LET r == read_short(vm) IN
  IF r.status = "Panic" THEN r
  ELSE IF top_frame(r).ip < r.ret THEN Panic(r)
  ELSE [r EXCEPT !.frames[Len(r.frames)].ip = @ - r.ret]

op_call(vm, now) ==
  LET r == read_byte(vm)
      arg_count == r.ret
      idx == Len(r.stack) - 1 - arg_count
  IN IF r.status = "Panic" \/ idx < 0 THEN Panic(r)
     ELSE LET c == call_value(r, At(r.stack, idx), arg_count, now) IN
          IF c.ret THEN c ELSE Failed(c)

op_invoke(vm, now) ==
  LET m == read_string(vm)
      r == read_byte(m)
      i == invoke(r, m.ret, r.ret, now)
  IN IF r.status = "Panic" THEN r
     ELSE IF i.ret THEN i ELSE Failed(i)

\* A SuperInvoke that looks the method up in the class of the receiver.
op_super_invoke_from_receiver(vm) ==
  LET m == read_string(vm)
      r == read_byte(m)
      arg_count == r.ret
      s == pop_superclass(r)
  IN IF r.status = "Panic" THEN r
     ELSE IF s.ret = 0 THEN s
     ELSE LET i == invoke_from_class(s, s.heap[peek(s, arg_count).ref].class,
                                     m.ret, arg_count) IN
          IF i.ret THEN i ELSE Failed(i)

op_super_invoke(vm) ==
  LET m == read_string(vm)
      r == read_byte(m)
      arg_count == r.ret
      s == pop_superclass(r)
  IN IF r.status = "Panic" THEN r
     ELSE IF s.ret = 0 THEN s
     ELSE LET i == invoke_from_class(s, s.ret, m.ret, arg_count) IN
          IF i.ret THEN i ELSE Failed(i)

\* The for_each of the Closure arm over 0..upvalue_count: ret is the upvalues
\* pushed so far.
RECURSIVE closure_upvalues(_, _, _)
closure_upvalues(vm, n, upvalues) ==
  IF n = 0 THEN [vm EXCEPT !.ret = upvalues]
  ELSE
    LET r1 == read_byte(vm)
        is_local == r1.ret # 0
        r2 == read_byte(r1)
        index == r2.ret
    IN IF r2.status = "Panic" THEN [r2 EXCEPT !.ret = upvalues]
       ELSE IF is_local
         THEN LET u == capture_upvalue(r2, top_frame(r2).slot_offset + index) IN
              closure_upvalues(u, n - 1, Append(upvalues, u.ret))
         ELSE IF index >= Len(frame_closure(r2).upvalues)
           THEN [Panic(r2) EXCEPT !.ret = upvalues]
           ELSE closure_upvalues(r2, n - 1,
                                 Append(upvalues, At(frame_closure(r2).upvalues, index)))

op_closure(vm) ==
  LET r == read_constant(vm) IN
  IF r.status = "Panic" THEN r
  ELSE IF r.ret.t # "Function"
    THEN Failed(runtime_error(r, <<"Expected function.">>))
    ELSE
      LET u == closure_upvalues(r, r.ret.f.upvalue_count, <<>>)
          a == alloc(u, [k |-> "Closure", function |-> r.ret.f, upvalues |-> u.ret])
      IN IF u.status = "Panic" THEN u ELSE push(a, Obj(a.ret))

op_close_upvalue(vm) ==
  IF vm.stack = <<>> THEN Panic(vm)
  ELSE pop(close_upvalues(vm, Len(vm.stack) - 1))

\* An op_return that leaves the script closure on the stack when the last
\* frame returns.
op_return_keeps_script(vm) ==
  LET c == close_upvalues(vm, top_frame(vm).slot_offset)
      p == pop(c)
      v1 == [p EXCEPT !.frames = Front(@)]
  IN IF c.status = "Panic" \/ c.stack = <<>> THEN Panic(c)
     ELSE IF v1.frames = <<>> THEN [v1 EXCEPT !.status = "Ok"]
     ELSE push([v1 EXCEPT !.stack = SubSeq(@, 1, top_frame(vm).slot_offset)], p.ret)

\* An op_return that pushes the value returned on the callee's window
\* instead of truncating the stack to its slot_offset.
op_return_keeps_window(vm) ==
  LET c == close_upvalues(vm, top_frame(vm).slot_offset)
      p == pop(c)
      v1 == [p EXCEPT !.frames = Front(@)]
  IN IF c.status = "Panic" \/ c.stack = <<>> THEN Panic(c)
     ELSE IF v1.frames = <<>>
       THEN IF v1.stack = <<>> THEN Panic(v1) ELSE [pop(v1) EXCEPT !.status = "Ok"]
       ELSE push(v1, p.ret)

\* Return; `return Ok(())` sets status "Ok".
op_return(vm) ==
  LET slot_offset == top_frame(vm).slot_offset
      c == close_upvalues(vm, slot_offset)
  IN IF c.status = "Panic" \/ c.stack = <<>> THEN Panic(c)
     ELSE
       LET p == pop(c)
           result == p.ret
           v1 == [p EXCEPT !.frames = Front(@)]
       IN IF v1.frames = <<>>
            THEN IF v1.stack = <<>> THEN Panic(v1)
                 ELSE [pop(v1) EXCEPT !.status = "Ok"]
            ELSE push([v1 EXCEPT !.stack = SubSeq(@, 1, slot_offset)], result)

op_class(vm) ==
  LET r == read_string(vm)
      a == alloc(r, [k |-> "Class", name |-> r.ret, methods |-> EmptyMap])
  IN IF r.status = "Panic" THEN r ELSE push(a, Obj(a.ret))

op_inherit(vm) ==
  IF Len(vm.stack) < 2 THEN Panic(vm)
  ELSE IF ~is_kind(vm, peek(vm, 1), "Class")
    THEN Failed(runtime_error(vm, <<"Superclass must be a class.">>))
  ELSE IF ~is_kind(vm, peek(vm, 0), "Class") THEN Panic(vm)
  ELSE
    LET superclass == vm.heap[peek(vm, 1).ref]
        subclass_rc == peek(vm, 0).ref
        sub == vm.heap[subclass_rc].methods
    IN pop([vm EXCEPT !.heap[subclass_rc].methods =
                        [key \in DOMAIN sub \cup DOMAIN superclass.methods |->
                           IF key \in DOMAIN superclass.methods
                             THEN superclass.methods[key] ELSE sub[key]]])

op_method(vm) ==
  LET r == read_string(vm) IN
  IF r.status = "Panic" THEN r ELSE define_method(r, r.ret)

\* The None arm: the byte is no OpCode.
op_unknown(vm, instruction) ==
  Failed(runtime_error(vm, <<"Unknown opcode: ", instruction>>))

\* One iteration of the loop of run: the instruction is read, ip advanced,
\* and the arm of the instruction taken.
run_step(vm, now) ==
  LET f == read_byte(vm)
      instruction == f.ret
  IN IF f.status = "Panic" THEN f
     ELSE CASE instruction = OpCode.Constant -> op_constant(f)
            [] instruction = OpCode.Nil -> op_nil(f)
            [] instruction = OpCode.True -> op_true(f)
            [] instruction = OpCode.False -> op_false(f)
            [] instruction = OpCode.Pop -> op_pop(f)
            [] instruction = OpCode.GetLocal -> op_get_local(f)
            [] instruction = OpCode.SetLocal -> op_set_local(f)
            [] instruction = OpCode.GetGlobal -> op_get_global(f)
            [] instruction = OpCode.DefineGlobal -> op_define_global(f)
            [] instruction = OpCode.SetGlobal -> op_set_global(f)
            [] instruction = OpCode.GetUpvalue -> op_get_upvalue(f)
            [] instruction = OpCode.SetUpvalue -> op_set_upvalue(f)
            [] instruction = OpCode.GetProperty -> op_get_property(f)
            [] instruction = OpCode.SetProperty -> op_set_property(f)
            [] instruction = OpCode.GetSuper -> op_get_super(f)
            [] instruction = OpCode.Equal -> op_equal(f)
            [] instruction = OpCode.Greater -> op_greater(f)
            [] instruction = OpCode.Less -> op_less(f)
            [] instruction = OpCode.Add -> op_add(f)
            [] instruction = OpCode.Subtract -> op_subtract(f)
            [] instruction = OpCode.Multiply -> op_multiply(f)
            [] instruction = OpCode.Divide -> op_divide(f)
            [] instruction = OpCode.Not -> op_not(f)
            [] instruction = OpCode.Negate -> op_negate(f)
            [] instruction = OpCode.Print_ -> op_print(f)
            [] instruction = OpCode.Jump -> op_jump(f)
            [] instruction = OpCode.JumpIfFalse -> op_jump_if_false(f)
            [] instruction = OpCode.Loop -> op_loop(f)
            [] instruction = OpCode.Call -> op_call(f, now)
            [] instruction = OpCode.Invoke -> op_invoke(f, now)
            [] instruction = OpCode.SuperInvoke -> op_super_invoke(f)
            [] instruction = OpCode.Closure -> op_closure(f)
            [] instruction = OpCode.CloseUpvalue -> op_close_upvalue(f)
            [] instruction = OpCode.Return -> op_return(f)
            [] instruction = OpCode.Class -> op_class(f)
            [] instruction = OpCode.Inherit -> op_inherit(f)
            [] instruction = OpCode.Method -> op_method(f)
            [] OTHER -> op_unknown(f, instruction)

\* One step of the deep machine is at most 2^RunHalvings iterations of the
\* loop of run.
RunHalvings == 9

\* run is about to execute a CALL, an INVOKE, a SUPER_INVOKE or a RETURN.
at_call_or_return(vm) ==
  /\ vm.frames # <<>>
  /\ top_frame(vm).ip < Len(frame_chunk(vm).code)
  /\ At(frame_chunk(vm).code, top_frame(vm).ip)
       \in {OpCode.Call, OpCode.Invoke, OpCode.SuperInvoke, OpCode.Return}

RECURSIVE run_turns(_, _, _)

\* After the iterations h, up to 2^k more unless run has returned or has come
\* to a call or a return.
run_more(h, k, now) ==
  IF h.status = "running" /\ ~at_call_or_return(h) THEN run_turns(h, k, now) ELSE h

\* Up to 2^k iterations of the loop of run: the first, and those after it up
\* to the return of run or to the next call or return instruction.
run_turns(vm, k, now) ==
  IF k = 0 THEN run_step(vm, now)
  ELSE run_more(run_turns(vm, k - 1, now), k - 1, now)

\* VM::new with define_native("clock", native::clock).
VM_new ==
  [ frames |-> <<>>, stack |-> <<>>,
    globals |-> Map_insert(EmptyMap, "clock", NativeValue("clock")),
    open_upvalues |-> EmptyMap,
    interner |-> intern(intern({}, "init"), "clock"),
    heap |-> <<>>, out |-> <<>>, err |-> <<>>,
    status |-> "Ready", ret |-> 0 ]

\* interpret up to the call of run; tokens is the source as the scanner yields
\* it, rc the identity of the interner Compiler::compile creates.  The status
\* is "running" when run is entered.
\* An interpret that runs whatever the compiler returns, errors or not.
interpret_ignores_errors(vm, tokens, rc) ==
  LET result == self("compile", <<tokens, rc>>)
      a == alloc(vm, [k |-> "Closure", function |-> result.function,
                      upvalues |-> <<>>])
      c == call_value(push(a, Obj(a.ret)), Obj(a.ret), 0, 0)
  IN [c EXCEPT !.status = "running"]

\* The match on the result of compile, in interpret.
interpret_compiled(vm, result) ==
  IF ~result.ok
    THEN [vm EXCEPT !.status = "CompileError", !.err = @ \o result.errors]
    ELSE
      LET a == alloc(vm, [k |-> "Closure", function |-> result.function,
                          upvalues |-> <<>>])
          p == push(a, Obj(a.ret))
          c == call_value(p, Obj(a.ret), 0, 0)
      IN IF c.frames = <<>> THEN Panic(c) ELSE [c EXCEPT !.status = "running"]

interpret(vm, tokens, rc) ==
  interpret_compiled(vm, self("compile", <<tokens, rc>>))


\* --------------------------------------------------------------- sessions
\* A session is what main.rs feeds one VM: the lines of a REPL session, or
\* the one source of run_file.

\* Strings: a literal, a concatenation, and the same contents on a later
\* line.
\*   > var a = "he" + "llo"; var b = "hello"; print a == b; print b ==
\*     "hello"; print a;
\*   > print b == "hello"; print a == "he" + "llo"; print "he" + 1;
Session_strings ==
  <<
    <<Token("Var", "var"), Id("a"), Token("Equal", "="), Str("he"),
      Token("Plus", "+"), Str("llo"), Token("Semicolon", ";"),
      Token("Var", "var"), Id("b"), Token("Equal", "="), Str("hello"),
      Token("Semicolon", ";"), Token("Print", "print"), Id("a"),
      Token("EqualEqual", "=="), Id("b"), Token("Semicolon", ";"),
      Token("Print", "print"), Id("b"), Token("EqualEqual", "=="),
      Str("hello"), Token("Semicolon", ";"), Token("Print", "print"), Id("a"),
      Token("Semicolon", ";"), Token("Eof", "")>>,
    <<Token("Print", "print"), Id("b"), Token("EqualEqual", "=="),
      Str("hello"), Token("Semicolon", ";"), Token("Print", "print"), Id("a"),
      Token("EqualEqual", "=="), Str("he"), Token("Plus", "+"), Str("llo"),
      Token("Semicolon", ";"), Token("Print", "print"), Str("he"),
      Token("Plus", "+"), Num(<<1>>), Token("Semicolon", ";"),
      Token("Eof", "")>>
  >>

\* An instance that outlives the last strong reference to its class.
\*   > class A { m() { print 1; } } var a = A(); a.f = 2; print a.f;
\*     a.m(); print a; A = nil; print a; print a.f; a.m();
\*   > print a.m;
\*   > a.m = clock; print a.m() == a; a.m = a; a.m();
\*   > print a.zzz;
Session_dropped_class ==
  <<
    <<Token("Class", "class"), Id("A"), Token("LeftBrace", "{"), Id("m"),
      Token("LeftParen", "("), Token("RightParen", ")"),
      Token("LeftBrace", "{"), Token("Print", "print"), Num(<<1>>),
      Token("Semicolon", ";"), Token("RightBrace", "}"),
      Token("RightBrace", "}"), Token("Var", "var"), Id("a"),
      Token("Equal", "="), Id("A"), Token("LeftParen", "("),
      Token("RightParen", ")"), Token("Semicolon", ";"), Id("a"),
      Token("Dot", "."), Id("f"), Token("Equal", "="), Num(<<2>>),
      Token("Semicolon", ";"), Token("Print", "print"), Id("a"),
      Token("Dot", "."), Id("f"), Token("Semicolon", ";"), Id("a"),
      Token("Dot", "."), Id("m"), Token("LeftParen", "("),
      Token("RightParen", ")"), Token("Semicolon", ";"),
      Token("Print", "print"), Id("a"), Token("Semicolon", ";"), Id("A"),
      Token("Equal", "="), Token("Nil", "nil"), Token("Semicolon", ";"),
      Token("Print", "print"), Id("a"), Token("Semicolon", ";"),
      Token("Print", "print"), Id("a"), Token("Dot", "."), Id("f"),
      Token("Semicolon", ";"), Id("a"), Token("Dot", "."), Id("m"),
      Token("LeftParen", "("), Token("RightParen", ")"),
      Token("Semicolon", ";"), Token("Eof", "")>>,
    <<Token("Print", "print"), Id("a"), Token("Dot", "."), Id("m"),
      Token("Semicolon", ";"), Token("Eof", "")>>,
    <<Id("a"), Token("Dot", "."), Id("m"), Token("Equal", "="), Id("clock"),
      Token("Semicolon", ";"), Token("Print", "print"), Id("a"),
      Token("Dot", "."), Id("m"), Token("LeftParen", "("),
      Token("RightParen", ")"), Token("EqualEqual", "=="), Id("a"),
      Token("Semicolon", ";"), Id("a"), Token("Dot", "."), Id("m"),
      Token("Equal", "="), Id("a"), Token("Semicolon", ";"), Id("a"),
      Token("Dot", "."), Id("m"), Token("LeftParen", "("),
      Token("RightParen", ")"), Token("Semicolon", ";"), Token("Eof", "")>>,
    <<Token("Print", "print"), Id("a"), Token("Dot", "."), Id("zzz"),
      Token("Semicolon", ";"), Token("Eof", "")>>
  >>

\* Two closures over one local, called while it is on the stack and after;
\* calls with arguments, one of them among the arguments of another; a
\* local closed while another stays open, and its slot taken by a new local.
\*   > var g; var i; fun mk() { var x = 1; fun get() { return x; } fun
\*     inc() { x = x + 1; } inc(); print get(); g = get; i = inc; } mk();
\*     i(); print g();
\*   > { var y = 5; fun h() { y = y * 2; return y; } i = h; print h(); }
\*     print i(); print g; print clock;
\*   > fun a() { var v = 7; var w = 8; fun b() { fun c() { return w; }
\*     return c; } return b; }
\*   > print a()()();
\*   > fun add(p, q) { return p + q; } print add(1, 2) + add(3, add(4, 5));
\*   > { var p = 1; fun fp() { return p; } var fq; { var q = 2; fun k() { q
\*     = q + 1; return q; } fq = k; } var r = 9; print fq(); print r; r =
\*     10; print fq(); print fp(); }
Session_counter ==
  <<
    <<Token("Var", "var"), Id("g"), Token("Semicolon", ";"),
      Token("Var", "var"), Id("i"), Token("Semicolon", ";"),
      Token("Fun", "fun"), Id("mk"), Token("LeftParen", "("),
      Token("RightParen", ")"), Token("LeftBrace", "{"), Token("Var", "var"),
      Id("x"), Token("Equal", "="), Num(<<1>>), Token("Semicolon", ";"),
      Token("Fun", "fun"), Id("get"), Token("LeftParen", "("),
      Token("RightParen", ")"), Token("LeftBrace", "{"),
      Token("Return", "return"), Id("x"), Token("Semicolon", ";"),
      Token("RightBrace", "}"), Token("Fun", "fun"), Id("inc"),
      Token("LeftParen", "("), Token("RightParen", ")"),
      Token("LeftBrace", "{"), Id("x"), Token("Equal", "="), Id("x"),
      Token("Plus", "+"), Num(<<1>>), Token("Semicolon", ";"),
      Token("RightBrace", "}"), Id("inc"), Token("LeftParen", "("),
      Token("RightParen", ")"), Token("Semicolon", ";"),
      Token("Print", "print"), Id("get"), Token("LeftParen", "("),
      Token("RightParen", ")"), Token("Semicolon", ";"), Id("g"),
      Token("Equal", "="), Id("get"), Token("Semicolon", ";"), Id("i"),
      Token("Equal", "="), Id("inc"), Token("Semicolon", ";"),
      Token("RightBrace", "}"), Id("mk"), Token("LeftParen", "("),
      Token("RightParen", ")"), Token("Semicolon", ";"), Id("i"),
      Token("LeftParen", "("), Token("RightParen", ")"),
      Token("Semicolon", ";"), Token("Print", "print"), Id("g"),
      Token("LeftParen", "("), Token("RightParen", ")"),
      Token("Semicolon", ";"), Token("Eof", "")>>,
    <<Token("LeftBrace", "{"), Token("Var", "var"), Id("y"),
      Token("Equal", "="), Num(<<5>>), Token("Semicolon", ";"),
      Token("Fun", "fun"), Id("h"), Token("LeftParen", "("),
      Token("RightParen", ")"), Token("LeftBrace", "{"), Id("y"),
      Token("Equal", "="), Id("y"), Token("Star", "*"), Num(<<2>>),
      Token("Semicolon", ";"), Token("Return", "return"), Id("y"),
      Token("Semicolon", ";"), Token("RightBrace", "}"), Id("i"),
      Token("Equal", "="), Id("h"), Token("Semicolon", ";"),
      Token("Print", "print"), Id("h"), Token("LeftParen", "("),
      Token("RightParen", ")"), Token("Semicolon", ";"),
      Token("RightBrace", "}"), Token("Print", "print"), Id("i"),
      Token("LeftParen", "("), Token("RightParen", ")"),
      Token("Semicolon", ";"), Token("Print", "print"), Id("g"),
      Token("Semicolon", ";"), Token("Print", "print"), Id("clock"),
      Token("Semicolon", ";"), Token("Eof", "")>>,
    <<Token("Fun", "fun"), Id("a"), Token("LeftParen", "("),
      Token("RightParen", ")"), Token("LeftBrace", "{"), Token("Var", "var"),
      Id("v"), Token("Equal", "="), Num(<<7>>), Token("Semicolon", ";"),
      Token("Var", "var"), Id("w"), Token("Equal", "="), Num(<<8>>),
      Token("Semicolon", ";"), Token("Fun", "fun"), Id("b"),
      Token("LeftParen", "("), Token("RightParen", ")"),
      Token("LeftBrace", "{"), Token("Fun", "fun"), Id("c"),
      Token("LeftParen", "("), Token("RightParen", ")"),
      Token("LeftBrace", "{"), Token("Return", "return"), Id("w"),
      Token("Semicolon", ";"), Token("RightBrace", "}"),
      Token("Return", "return"), Id("c"), Token("Semicolon", ";"),
      Token("RightBrace", "}"), Token("Return", "return"), Id("b"),
      Token("Semicolon", ";"), Token("RightBrace", "}"), Token("Eof", "")>>,
    <<Token("Print", "print"), Id("a"), Token("LeftParen", "("),
      Token("RightParen", ")"), Token("LeftParen", "("),
      Token("RightParen", ")"), Token("LeftParen", "("),
      Token("RightParen", ")"), Token("Semicolon", ";"), Token("Eof", "")>>,
    <<Token("Fun", "fun"), Id("add"), Token("LeftParen", "("), Id("p"),
      Token("Comma", ","), Id("q"), Token("RightParen", ")"),
      Token("LeftBrace", "{"), Token("Return", "return"), Id("p"),
      Token("Plus", "+"), Id("q"), Token("Semicolon", ";"),
      Token("RightBrace", "}"), Token("Print", "print"), Id("add"),
      Token("LeftParen", "("), Num(<<1>>), Token("Comma", ","), Num(<<2>>),
      Token("RightParen", ")"), Token("Plus", "+"), Id("add"),
      Token("LeftParen", "("), Num(<<3>>), Token("Comma", ","), Id("add"),
      Token("LeftParen", "("), Num(<<4>>), Token("Comma", ","), Num(<<5>>),
      Token("RightParen", ")"), Token("RightParen", ")"),
      Token("Semicolon", ";"), Token("Eof", "")>>,
    <<Token("LeftBrace", "{"), Token("Var", "var"), Id("p"),
      Token("Equal", "="), Num(<<1>>), Token("Semicolon", ";"),
      Token("Fun", "fun"), Id("fp"), Token("LeftParen", "("),
      Token("RightParen", ")"), Token("LeftBrace", "{"),
      Token("Return", "return"), Id("p"), Token("Semicolon", ";"),
      Token("RightBrace", "}"), Token("Var", "var"), Id("fq"),
      Token("Semicolon", ";"), Token("LeftBrace", "{"), Token("Var", "var"),
      Id("q"), Token("Equal", "="), Num(<<2>>), Token("Semicolon", ";"),
      Token("Fun", "fun"), Id("k"), Token("LeftParen", "("),
      Token("RightParen", ")"), Token("LeftBrace", "{"), Id("q"),
      Token("Equal", "="), Id("q"), Token("Plus", "+"), Num(<<1>>),
      Token("Semicolon", ";"), Token("Return", "return"), Id("q"),
      Token("Semicolon", ";"), Token("RightBrace", "}"), Id("fq"),
      Token("Equal", "="), Id("k"), Token("Semicolon", ";"),
      Token("RightBrace", "}"), Token("Var", "var"), Id("r"),
      Token("Equal", "="), Num(<<9>>), Token("Semicolon", ";"),
      Token("Print", "print"), Id("fq"), Token("LeftParen", "("),
      Token("RightParen", ")"), Token("Semicolon", ";"),
      Token("Print", "print"), Id("r"), Token("Semicolon", ";"), Id("r"),
      Token("Equal", "="), Num(<<1,0>>), Token("Semicolon", ";"),
      Token("Print", "print"), Id("fq"), Token("LeftParen", "("),
      Token("RightParen", ")"), Token("Semicolon", ";"),
      Token("Print", "print"), Id("fp"), Token("LeftParen", "("),
      Token("RightParen", ")"), Token("Semicolon", ";"),
      Token("RightBrace", "}"), Token("Eof", "")>>
  >>

\* Runtime errors at the top level and inside calls with open upvalues.
\*   > var a = 1; print -a; print !a; print -"x";
\*   > fun f() { var c = 3; fun k() { return c; } a = 2; return k() +
\*     nil; } f();
\*   > print a; print 6 / 3 - 1 > 0; print 1 < nil;
\*   > fun two(p, q) {} two(1);
\*   > a = nil; a();
\*   > print undefined_;
\*   > undefined_ = 1;
\*   > a.b = 1;
\*   > print a.b;
\*   > var a = "again"; print a;
Session_runtime_errors ==
  <<
    <<Token("Var", "var"), Id("a"), Token("Equal", "="), Num(<<1>>),
      Token("Semicolon", ";"), Token("Print", "print"), Token("Minus", "-"),
      Id("a"), Token("Semicolon", ";"), Token("Print", "print"),
      Token("Bang", "!"), Id("a"), Token("Semicolon", ";"),
      Token("Print", "print"), Token("Minus", "-"), Str("x"),
      Token("Semicolon", ";"), Token("Eof", "")>>,
    <<Token("Fun", "fun"), Id("f"), Token("LeftParen", "("),
      Token("RightParen", ")"), Token("LeftBrace", "{"), Token("Var", "var"),
      Id("c"), Token("Equal", "="), Num(<<3>>), Token("Semicolon", ";"),
      Token("Fun", "fun"), Id("k"), Token("LeftParen", "("),
      Token("RightParen", ")"), Token("LeftBrace", "{"),
      Token("Return", "return"), Id("c"), Token("Semicolon", ";"),
      Token("RightBrace", "}"), Id("a"), Token("Equal", "="), Num(<<2>>),
      Token("Semicolon", ";"), Token("Return", "return"), Id("k"),
      Token("LeftParen", "("), Token("RightParen", ")"), Token("Plus", "+"),
      Token("Nil", "nil"), Token("Semicolon", ";"), Token("RightBrace", "}"),
      Id("f"), Token("LeftParen", "("), Token("RightParen", ")"),
      Token("Semicolon", ";"), Token("Eof", "")>>,
    <<Token("Print", "print"), Id("a"), Token("Semicolon", ";"),
      Token("Print", "print"), Num(<<6>>), Token("Slash", "/"), Num(<<3>>),
      Token("Minus", "-"), Num(<<1>>), Token("Greater", ">"), Num(<<0>>),
      Token("Semicolon", ";"), Token("Print", "print"), Num(<<1>>),
      Token("Less", "<"), Token("Nil", "nil"), Token("Semicolon", ";"),
      Token("Eof", "")>>,
    <<Token("Fun", "fun"), Id("two"), Token("LeftParen", "("), Id("p"),
      Token("Comma", ","), Id("q"), Token("RightParen", ")"),
      Token("LeftBrace", "{"), Token("RightBrace", "}"), Id("two"),
      Token("LeftParen", "("), Num(<<1>>), Token("RightParen", ")"),
      Token("Semicolon", ";"), Token("Eof", "")>>,
    <<Id("a"), Token("Equal", "="), Token("Nil", "nil"),
      Token("Semicolon", ";"), Id("a"), Token("LeftParen", "("),
      Token("RightParen", ")"), Token("Semicolon", ";"), Token("Eof", "")>>,
    <<Token("Print", "print"), Id("undefined_"), Token("Semicolon", ";"),
      Token("Eof", "")>>,
    <<Id("undefined_"), Token("Equal", "="), Num(<<1>>),
      Token("Semicolon", ";"), Token("Eof", "")>>,
    <<Id("a"), Token("Dot", "."), Id("b"), Token("Equal", "="), Num(<<1>>),
      Token("Semicolon", ";"), Token("Eof", "")>>,
    <<Token("Print", "print"), Id("a"), Token("Dot", "."), Id("b"),
      Token("Semicolon", ";"), Token("Eof", "")>>,
    <<Token("Var", "var"), Id("a"), Token("Equal", "="), Str("again"),
      Token("Semicolon", ";"), Token("Print", "print"), Id("a"),
      Token("Semicolon", ";"), Token("Eof", "")>>
  >>

\* Sources that do not compile, between sources that do.
\*   > var a = 1; print a;
\*   > print a; var = ;
\*   > a = 2; print a; return 1;
\*   > print a; { var b = b; }
\*   > print a;
Session_compile_errors ==
  <<
    <<Token("Var", "var"), Id("a"), Token("Equal", "="), Num(<<1>>),
      Token("Semicolon", ";"), Token("Print", "print"), Id("a"),
      Token("Semicolon", ";"), Token("Eof", "")>>,
    <<Token("Print", "print"), Id("a"), Token("Semicolon", ";"),
      Token("Var", "var"), Token("Equal", "="), Token("Semicolon", ";"),
      Token("Eof", "")>>,
    <<Id("a"), Token("Equal", "="), Num(<<2>>), Token("Semicolon", ";"),
      Token("Print", "print"), Id("a"), Token("Semicolon", ";"),
      Token("Return", "return"), Num(<<1>>), Token("Semicolon", ";"),
      Token("Eof", "")>>,
    <<Token("Print", "print"), Id("a"), Token("Semicolon", ";"),
      Token("LeftBrace", "{"), Token("Var", "var"), Id("b"),
      Token("Equal", "="), Id("b"), Token("Semicolon", ";"),
      Token("RightBrace", "}"), Token("Eof", "")>>,
    <<Token("Print", "print"), Id("a"), Token("Semicolon", ";"),
      Token("Eof", "")>>
  >>

\* Recursion without a base case, with calls of a native and with the wrong
\* number of arguments at the frame limit.
\*   > fun f(n) { clock(); return f(n + 1); } f(0);
\*   > print f;
\*   > fun g(n) { if (n > 61) g(); return g(n + 1); }
\*   > g(0);
Session_recursion ==
  <<
    <<Token("Fun", "fun"), Id("f"), Token("LeftParen", "("), Id("n"),
      Token("RightParen", ")"), Token("LeftBrace", "{"), Id("clock"),
      Token("LeftParen", "("), Token("RightParen", ")"),
      Token("Semicolon", ";"), Token("Return", "return"), Id("f"),
      Token("LeftParen", "("), Id("n"), Token("Plus", "+"), Num(<<1>>),
      Token("RightParen", ")"), Token("Semicolon", ";"),
      Token("RightBrace", "}"), Id("f"), Token("LeftParen", "("), Num(<<0>>),
      Token("RightParen", ")"), Token("Semicolon", ";"), Token("Eof", "")>>,
    <<Token("Print", "print"), Id("f"), Token("Semicolon", ";"),
      Token("Eof", "")>>,
    <<Token("Fun", "fun"), Id("g"), Token("LeftParen", "("), Id("n"),
      Token("RightParen", ")"), Token("LeftBrace", "{"), Token("If", "if"),
      Token("LeftParen", "("), Id("n"), Token("Greater", ">"), Num(<<6,1>>),
      Token("RightParen", ")"), Id("g"), Token("LeftParen", "("),
      Token("RightParen", ")"), Token("Semicolon", ";"),
      Token("Return", "return"), Id("g"), Token("LeftParen", "("), Id("n"),
      Token("Plus", "+"), Num(<<1>>), Token("RightParen", ")"),
      Token("Semicolon", ";"), Token("RightBrace", "}"), Token("Eof", "")>>,
    <<Id("g"), Token("LeftParen", "("), Num(<<0>>), Token("RightParen", ")"),
      Token("Semicolon", ";"), Token("Eof", "")>>
  >>

\* Classes: initializer, fields, methods, inheritance and super.
\*   > class A { init(n) { this.n = n; } greet() { print "A"; return
\*     this.n; } }
\*   > class B < A { greet() { var m = super.greet; print m();
\*     super.greet(); print "B"; } }
\*   > var b = B(7); b.greet(); print b.n; print B; var m = b.greet;
\*     print m; b.n = m; b.n();
\*   > var NotAClass = 1; class C < NotAClass {}
\*   > b.missing();
\*   > B();
\*   > class D {} D(1);
Session_classes ==
  <<
    <<Token("Class", "class"), Id("A"), Token("LeftBrace", "{"), Id("init"),
      Token("LeftParen", "("), Id("n"), Token("RightParen", ")"),
      Token("LeftBrace", "{"), Token("This", "this"), Token("Dot", "."),
      Id("n"), Token("Equal", "="), Id("n"), Token("Semicolon", ";"),
      Token("RightBrace", "}"), Id("greet"), Token("LeftParen", "("),
      Token("RightParen", ")"), Token("LeftBrace", "{"),
      Token("Print", "print"), Str("A"), Token("Semicolon", ";"),
      Token("Return", "return"), Token("This", "this"), Token("Dot", "."),
      Id("n"), Token("Semicolon", ";"), Token("RightBrace", "}"),
      Token("RightBrace", "}"), Token("Eof", "")>>,
    <<Token("Class", "class"), Id("B"), Token("Less", "<"), Id("A"),
      Token("LeftBrace", "{"), Id("greet"), Token("LeftParen", "("),
      Token("RightParen", ")"), Token("LeftBrace", "{"), Token("Var", "var"),
      Id("m"), Token("Equal", "="), Token("Super", "super"),
      Token("Dot", "."), Id("greet"), Token("Semicolon", ";"),
      Token("Print", "print"), Id("m"), Token("LeftParen", "("),
      Token("RightParen", ")"), Token("Semicolon", ";"),
      Token("Super", "super"), Token("Dot", "."), Id("greet"),
      Token("LeftParen", "("), Token("RightParen", ")"),
      Token("Semicolon", ";"), Token("Print", "print"), Str("B"),
      Token("Semicolon", ";"), Token("RightBrace", "}"),
      Token("RightBrace", "}"), Token("Eof", "")>>,
    <<Token("Var", "var"), Id("b"), Token("Equal", "="), Id("B"),
      Token("LeftParen", "("), Num(<<7>>), Token("RightParen", ")"),
      Token("Semicolon", ";"), Id("b"), Token("Dot", "."), Id("greet"),
      Token("LeftParen", "("), Token("RightParen", ")"),
      Token("Semicolon", ";"), Token("Print", "print"), Id("b"),
      Token("Dot", "."), Id("n"), Token("Semicolon", ";"),
      Token("Print", "print"), Id("B"), Token("Semicolon", ";"),
      Token("Var", "var"), Id("m"), Token("Equal", "="), Id("b"),
      Token("Dot", "."), Id("greet"), Token("Semicolon", ";"),
      Token("Print", "print"), Id("m"), Token("Semicolon", ";"), Id("b"),
      Token("Dot", "."), Id("n"), Token("Equal", "="), Id("m"),
      Token("Semicolon", ";"), Id("b"), Token("Dot", "."), Id("n"),
      Token("LeftParen", "("), Token("RightParen", ")"),
      Token("Semicolon", ";"), Token("Eof", "")>>,
    <<Token("Var", "var"), Id("NotAClass"), Token("Equal", "="), Num(<<1>>),
      Token("Semicolon", ";"), Token("Class", "class"), Id("C"),
      Token("Less", "<"), Id("NotAClass"), Token("LeftBrace", "{"),
      Token("RightBrace", "}"), Token("Eof", "")>>,
    <<Id("b"), Token("Dot", "."), Id("missing"), Token("LeftParen", "("),
      Token("RightParen", ")"), Token("Semicolon", ";"), Token("Eof", "")>>,
    <<Id("B"), Token("LeftParen", "("), Token("RightParen", ")"),
      Token("Semicolon", ";"), Token("Eof", "")>>,
    <<Token("Class", "class"), Id("D"), Token("LeftBrace", "{"),
      Token("RightBrace", "}"), Id("D"), Token("LeftParen", "("), Num(<<1>>),
      Token("RightParen", ")"), Token("Semicolon", ";"), Token("Eof", "")>>
  >>

\* Branches and loops.
\*   > if (false) print 1;
\*   > var n = 0; while (n < 2) { n = n + 1; if (n == 1 and true) print
\*     n; else print nil or false; }
\*   > for (var i = 0; i < 2; i = i + 1) { fun show() { print i; }
\*     show(); }
\*   > for (;n > 0;) n = n - 1; print n or 1; print n != 0; print n <= 0;
\*     print n >= 1;
Session_control_flow ==
  <<
    <<Token("If", "if"), Token("LeftParen", "("), Token("False", "false"),
      Token("RightParen", ")"), Token("Print", "print"), Num(<<1>>),
      Token("Semicolon", ";"), Token("Eof", "")>>,
    <<Token("Var", "var"), Id("n"), Token("Equal", "="), Num(<<0>>),
      Token("Semicolon", ";"), Token("While", "while"),
      Token("LeftParen", "("), Id("n"), Token("Less", "<"), Num(<<2>>),
      Token("RightParen", ")"), Token("LeftBrace", "{"), Id("n"),
      Token("Equal", "="), Id("n"), Token("Plus", "+"), Num(<<1>>),
      Token("Semicolon", ";"), Token("If", "if"), Token("LeftParen", "("),
      Id("n"), Token("EqualEqual", "=="), Num(<<1>>), Token("And", "and"),
      Token("True", "true"), Token("RightParen", ")"),
      Token("Print", "print"), Id("n"), Token("Semicolon", ";"),
      Token("Else", "else"), Token("Print", "print"), Token("Nil", "nil"),
      Token("Or", "or"), Token("False", "false"), Token("Semicolon", ";"),
      Token("RightBrace", "}"), Token("Eof", "")>>,
    <<Token("For", "for"), Token("LeftParen", "("), Token("Var", "var"),
      Id("i"), Token("Equal", "="), Num(<<0>>), Token("Semicolon", ";"),
      Id("i"), Token("Less", "<"), Num(<<2>>), Token("Semicolon", ";"),
      Id("i"), Token("Equal", "="), Id("i"), Token("Plus", "+"), Num(<<1>>),
      Token("RightParen", ")"), Token("LeftBrace", "{"), Token("Fun", "fun"),
      Id("show"), Token("LeftParen", "("), Token("RightParen", ")"),
      Token("LeftBrace", "{"), Token("Print", "print"), Id("i"),
      Token("Semicolon", ";"), Token("RightBrace", "}"), Id("show"),
      Token("LeftParen", "("), Token("RightParen", ")"),
      Token("Semicolon", ";"), Token("RightBrace", "}"), Token("Eof", "")>>,
    <<Token("For", "for"), Token("LeftParen", "("), Token("Semicolon", ";"),
      Id("n"), Token("Greater", ">"), Num(<<0>>), Token("Semicolon", ";"),
      Token("RightParen", ")"), Id("n"), Token("Equal", "="), Id("n"),
      Token("Minus", "-"), Num(<<1>>), Token("Semicolon", ";"),
      Token("Print", "print"), Id("n"), Token("Or", "or"), Num(<<1>>),
      Token("Semicolon", ";"), Token("Print", "print"), Id("n"),
      Token("BangEqual", "!="), Num(<<0>>), Token("Semicolon", ";"),
      Token("Print", "print"), Id("n"), Token("LessEqual", "<="), Num(<<0>>),
      Token("Semicolon", ";"), Token("Print", "print"), Id("n"),
      Token("GreaterEqual", ">="), Num(<<1>>), Token("Semicolon", ";"),
      Token("Eof", "")>>
  >>

\* Initializers: a bare return, a return of a value, and returns elsewhere.
\*   > class P { init(x) { this.x = x; if (x) return; this.x = 0; } }
\*   > var p = P(true); print p.x; print P(false).x; print p.init(false)
\*     == p; print p.x;
\*   > class Q { init() { return 1; } }
\*   > return;
\*   > class R { init() { fun inner() { return 2; } this.v = inner(); } }
\*     print R().v;
\*   > fun init() { return 3; } print init();
Session_initializers ==
  <<
    <<Token("Class", "class"), Id("P"), Token("LeftBrace", "{"), Id("init"),
      Token("LeftParen", "("), Id("x"), Token("RightParen", ")"),
      Token("LeftBrace", "{"), Token("This", "this"), Token("Dot", "."),
      Id("x"), Token("Equal", "="), Id("x"), Token("Semicolon", ";"),
      Token("If", "if"), Token("LeftParen", "("), Id("x"),
      Token("RightParen", ")"), Token("Return", "return"),
      Token("Semicolon", ";"), Token("This", "this"), Token("Dot", "."),
      Id("x"), Token("Equal", "="), Num(<<0>>), Token("Semicolon", ";"),
      Token("RightBrace", "}"), Token("RightBrace", "}"), Token("Eof", "")>>,
    <<Token("Var", "var"), Id("p"), Token("Equal", "="), Id("P"),
      Token("LeftParen", "("), Token("True", "true"),
      Token("RightParen", ")"), Token("Semicolon", ";"),
      Token("Print", "print"), Id("p"), Token("Dot", "."), Id("x"),
      Token("Semicolon", ";"), Token("Print", "print"), Id("P"),
      Token("LeftParen", "("), Token("False", "false"),
      Token("RightParen", ")"), Token("Dot", "."), Id("x"),
      Token("Semicolon", ";"), Token("Print", "print"), Id("p"),
      Token("Dot", "."), Id("init"), Token("LeftParen", "("),
      Token("False", "false"), Token("RightParen", ")"),
      Token("EqualEqual", "=="), Id("p"), Token("Semicolon", ";"),
      Token("Print", "print"), Id("p"), Token("Dot", "."), Id("x"),
      Token("Semicolon", ";"), Token("Eof", "")>>,
    <<Token("Class", "class"), Id("Q"), Token("LeftBrace", "{"), Id("init"),
      Token("LeftParen", "("), Token("RightParen", ")"),
      Token("LeftBrace", "{"), Token("Return", "return"), Num(<<1>>),
      Token("Semicolon", ";"), Token("RightBrace", "}"),
      Token("RightBrace", "}"), Token("Eof", "")>>,
    <<Token("Return", "return"), Token("Semicolon", ";"), Token("Eof", "")>>,
    <<Token("Class", "class"), Id("R"), Token("LeftBrace", "{"), Id("init"),
      Token("LeftParen", "("), Token("RightParen", ")"),
      Token("LeftBrace", "{"), Token("Fun", "fun"), Id("inner"),
      Token("LeftParen", "("), Token("RightParen", ")"),
      Token("LeftBrace", "{"), Token("Return", "return"), Num(<<2>>),
      Token("Semicolon", ";"), Token("RightBrace", "}"),
      Token("This", "this"), Token("Dot", "."), Id("v"), Token("Equal", "="),
      Id("inner"), Token("LeftParen", "("), Token("RightParen", ")"),
      Token("Semicolon", ";"), Token("RightBrace", "}"),
      Token("RightBrace", "}"), Token("Print", "print"), Id("R"),
      Token("LeftParen", "("), Token("RightParen", ")"), Token("Dot", "."),
      Id("v"), Token("Semicolon", ";"), Token("Eof", "")>>,
    <<Token("Fun", "fun"), Id("init"), Token("LeftParen", "("),
      Token("RightParen", ")"), Token("LeftBrace", "{"),
      Token("Return", "return"), Num(<<3>>), Token("Semicolon", ";"),
      Token("RightBrace", "}"), Token("Print", "print"), Id("init"),
      Token("LeftParen", "("), Token("RightParen", ")"),
      Token("Semicolon", ";"), Token("Eof", "")>>
  >>

\* A closure that is kept in a global while its upvalue is open, and a
\* runtime error before the variable goes out of scope.
\*   > var g; fun f() { var c = 3; fun k() { return c; } g = k; return c
\*     + nil; } f();
\*   > { var t = 0; var u = "other"; print g(); }
\*   > print g();
Session_stale_upvalue ==
  <<
    <<Token("Var", "var"), Id("g"), Token("Semicolon", ";"),
      Token("Fun", "fun"), Id("f"), Token("LeftParen", "("),
      Token("RightParen", ")"), Token("LeftBrace", "{"), Token("Var", "var"),
      Id("c"), Token("Equal", "="), Num(<<3>>), Token("Semicolon", ";"),
      Token("Fun", "fun"), Id("k"), Token("LeftParen", "("),
      Token("RightParen", ")"), Token("LeftBrace", "{"),
      Token("Return", "return"), Id("c"), Token("Semicolon", ";"),
      Token("RightBrace", "}"), Id("g"), Token("Equal", "="), Id("k"),
      Token("Semicolon", ";"), Token("Return", "return"), Id("c"),
      Token("Plus", "+"), Token("Nil", "nil"), Token("Semicolon", ";"),
      Token("RightBrace", "}"), Id("f"), Token("LeftParen", "("),
      Token("RightParen", ")"), Token("Semicolon", ";"), Token("Eof", "")>>,
    <<Token("LeftBrace", "{"), Token("Var", "var"), Id("t"),
      Token("Equal", "="), Num(<<0>>), Token("Semicolon", ";"),
      Token("Var", "var"), Id("u"), Token("Equal", "="), Str("other"),
      Token("Semicolon", ";"), Token("Print", "print"), Id("g"),
      Token("LeftParen", "("), Token("RightParen", ")"),
      Token("Semicolon", ";"), Token("RightBrace", "}"), Token("Eof", "")>>,
    <<Token("Print", "print"), Id("g"), Token("LeftParen", "("),
      Token("RightParen", ")"), Token("Semicolon", ";"), Token("Eof", "")>>
  >>


\* The identifiers x1, ..., xn, separated by commas.
Names(x, n) ==
  [i \in 1 .. 2 * n - 1 |->
     IF i % 2 = 1 THEN Id(x \o ToString((i + 1) \div 2))
                  ELSE Token("Comma", ",")]

\* A function M that captures 256 variables itself, and a function in it that
\* uses a 257th.
\*   > { var v; fun A(a1, ..., a254) { fun M() { g(a1, ..., a254, M); g(A);
\*     fun I() { return v; } } } }
Session_many_upvalues ==
  <<
    <<Token("LeftBrace", "{"), Token("Var", "var"), Id("v"),
      Token("Semicolon", ";"), Token("Fun", "fun"), Id("A"),
      Token("LeftParen", "(")>>
      \o Names("a", U8_MAX - 1)
      \o <<Token("RightParen", ")"), Token("LeftBrace", "{"),
            Token("Fun", "fun"), Id("M"), Token("LeftParen", "("),
            Token("RightParen", ")"), Token("LeftBrace", "{"), Id("g"),
            Token("LeftParen", "(")>>
      \o Names("a", U8_MAX - 1)
      \o <<Token("Comma", ","), Id("M"), Token("RightParen", ")"),
            Token("Semicolon", ";"), Id("g"), Token("LeftParen", "("),
            Id("A"), Token("RightParen", ")"), Token("Semicolon", ";"),
            Token("Fun", "fun"), Id("I"), Token("LeftParen", "("),
            Token("RightParen", ")"), Token("LeftBrace", "{"),
            Token("Return", "return"), Id("v"), Token("Semicolon", ";"),
            Token("RightBrace", "}"), Token("RightBrace", "}"),
            Token("RightBrace", "}"), Token("RightBrace", "}"),
            Token("Eof", "")>>
  >>

\* Three classes in a chain with m overridden at each level, a field that
\* shadows a method, and a bound method kept in a field of another instance.
\*   > class A { m() { return "A"; } } class B < A { m() { return "B"; }
\*     test() { return super.m(); } get() { return super.m; } } class C <
\*     B { m() { return "C"; } }
\*   > var c = C(); print c.test(); var g = c.get(); print g(); print
\*     c.m();
\*   > fun h() { return "field"; } c.m = h; print c.m(); print c.m;
\*   > c.m = 5; print c.m; c.m();
\*   > c.none;
\*   > class P { init(n) { this.n = n; } name() { return this.n; } } var
\*     p = P("p"); var q = P("q"); q.f = p.name; fun via(f) { return f();
\*     } print via(q.f); print q.f();
Session_super ==
  <<
    <<Token("Class", "class"), Id("A"), Token("LeftBrace", "{"), Id("m"),
      Token("LeftParen", "("), Token("RightParen", ")"),
      Token("LeftBrace", "{"), Token("Return", "return"), Str("A"),
      Token("Semicolon", ";"), Token("RightBrace", "}"),
      Token("RightBrace", "}"), Token("Class", "class"), Id("B"),
      Token("Less", "<"), Id("A"), Token("LeftBrace", "{"), Id("m"),
      Token("LeftParen", "("), Token("RightParen", ")"),
      Token("LeftBrace", "{"), Token("Return", "return"), Str("B"),
      Token("Semicolon", ";"), Token("RightBrace", "}"), Id("test"),
      Token("LeftParen", "("), Token("RightParen", ")"),
      Token("LeftBrace", "{"), Token("Return", "return"),
      Token("Super", "super"), Token("Dot", "."), Id("m"),
      Token("LeftParen", "("), Token("RightParen", ")"),
      Token("Semicolon", ";"), Token("RightBrace", "}"), Id("get"),
      Token("LeftParen", "("), Token("RightParen", ")"),
      Token("LeftBrace", "{"), Token("Return", "return"),
      Token("Super", "super"), Token("Dot", "."), Id("m"),
      Token("Semicolon", ";"), Token("RightBrace", "}"),
      Token("RightBrace", "}"), Token("Class", "class"), Id("C"),
      Token("Less", "<"), Id("B"), Token("LeftBrace", "{"), Id("m"),
      Token("LeftParen", "("), Token("RightParen", ")"),
      Token("LeftBrace", "{"), Token("Return", "return"), Str("C"),
      Token("Semicolon", ";"), Token("RightBrace", "}"),
      Token("RightBrace", "}"), Token("Eof", "")>>,
    <<Token("Var", "var"), Id("c"), Token("Equal", "="), Id("C"),
      Token("LeftParen", "("), Token("RightParen", ")"),
      Token("Semicolon", ";"), Token("Print", "print"), Id("c"),
      Token("Dot", "."), Id("test"), Token("LeftParen", "("),
      Token("RightParen", ")"), Token("Semicolon", ";"), Token("Var", "var"),
      Id("g"), Token("Equal", "="), Id("c"), Token("Dot", "."), Id("get"),
      Token("LeftParen", "("), Token("RightParen", ")"),
      Token("Semicolon", ";"), Token("Print", "print"), Id("g"),
      Token("LeftParen", "("), Token("RightParen", ")"),
      Token("Semicolon", ";"), Token("Print", "print"), Id("c"),
      Token("Dot", "."), Id("m"), Token("LeftParen", "("),
      Token("RightParen", ")"), Token("Semicolon", ";"), Token("Eof", "")>>,
    <<Token("Fun", "fun"), Id("h"), Token("LeftParen", "("),
      Token("RightParen", ")"), Token("LeftBrace", "{"),
      Token("Return", "return"), Str("field"), Token("Semicolon", ";"),
      Token("RightBrace", "}"), Id("c"), Token("Dot", "."), Id("m"),
      Token("Equal", "="), Id("h"), Token("Semicolon", ";"),
      Token("Print", "print"), Id("c"), Token("Dot", "."), Id("m"),
      Token("LeftParen", "("), Token("RightParen", ")"),
      Token("Semicolon", ";"), Token("Print", "print"), Id("c"),
      Token("Dot", "."), Id("m"), Token("Semicolon", ";"), Token("Eof", "")>>,
    <<Id("c"), Token("Dot", "."), Id("m"), Token("Equal", "="), Num(<<5>>),
      Token("Semicolon", ";"), Token("Print", "print"), Id("c"),
      Token("Dot", "."), Id("m"), Token("Semicolon", ";"), Id("c"),
      Token("Dot", "."), Id("m"), Token("LeftParen", "("),
      Token("RightParen", ")"), Token("Semicolon", ";"), Token("Eof", "")>>,
    <<Id("c"), Token("Dot", "."), Id("none"), Token("Semicolon", ";"),
      Token("Eof", "")>>,
    <<Token("Class", "class"), Id("P"), Token("LeftBrace", "{"), Id("init"),
      Token("LeftParen", "("), Id("n"), Token("RightParen", ")"),
      Token("LeftBrace", "{"), Token("This", "this"), Token("Dot", "."),
      Id("n"), Token("Equal", "="), Id("n"), Token("Semicolon", ";"),
      Token("RightBrace", "}"), Id("name"), Token("LeftParen", "("),
      Token("RightParen", ")"), Token("LeftBrace", "{"),
      Token("Return", "return"), Token("This", "this"), Token("Dot", "."),
      Id("n"), Token("Semicolon", ";"), Token("RightBrace", "}"),
      Token("RightBrace", "}"), Token("Var", "var"), Id("p"),
      Token("Equal", "="), Id("P"), Token("LeftParen", "("), Str("p"),
      Token("RightParen", ")"), Token("Semicolon", ";"), Token("Var", "var"),
      Id("q"), Token("Equal", "="), Id("P"), Token("LeftParen", "("),
      Str("q"), Token("RightParen", ")"), Token("Semicolon", ";"), Id("q"),
      Token("Dot", "."), Id("f"), Token("Equal", "="), Id("p"),
      Token("Dot", "."), Id("name"), Token("Semicolon", ";"),
      Token("Fun", "fun"), Id("via"), Token("LeftParen", "("), Id("f"),
      Token("RightParen", ")"), Token("LeftBrace", "{"),
      Token("Return", "return"), Id("f"), Token("LeftParen", "("),
      Token("RightParen", ")"), Token("Semicolon", ";"),
      Token("RightBrace", "}"), Token("Print", "print"), Id("via"),
      Token("LeftParen", "("), Id("q"), Token("Dot", "."), Id("f"),
      Token("RightParen", ")"), Token("Semicolon", ";"),
      Token("Print", "print"), Id("q"), Token("Dot", "."), Id("f"),
      Token("LeftParen", "("), Token("RightParen", ")"),
      Token("Semicolon", ";"), Token("Eof", "")>>
  >>

\* Logical operators whose right operand says when it is evaluated.
\*   > fun say(v) { print v; return v; }
\*   > print nil and say(1); print false and say(2); print 0 and say(3);
\*     print "" and say(nil);
\*   > print nil or say(4); print false or say(false); print 0 or say(5);
\*     print "s" or say(6); print true or say(7);
\*   > { var t = 1 and 2 or 3; var u = nil or false and 4; print t; print
\*     u; }
Session_logic ==
  <<
    <<Token("Fun", "fun"), Id("say"), Token("LeftParen", "("), Id("v"),
      Token("RightParen", ")"), Token("LeftBrace", "{"),
      Token("Print", "print"), Id("v"), Token("Semicolon", ";"),
      Token("Return", "return"), Id("v"), Token("Semicolon", ";"),
      Token("RightBrace", "}"), Token("Eof", "")>>,
    <<Token("Print", "print"), Token("Nil", "nil"), Token("And", "and"),
      Id("say"), Token("LeftParen", "("), Num(<<1>>),
      Token("RightParen", ")"), Token("Semicolon", ";"),
      Token("Print", "print"), Token("False", "false"), Token("And", "and"),
      Id("say"), Token("LeftParen", "("), Num(<<2>>),
      Token("RightParen", ")"), Token("Semicolon", ";"),
      Token("Print", "print"), Num(<<0>>), Token("And", "and"), Id("say"),
      Token("LeftParen", "("), Num(<<3>>), Token("RightParen", ")"),
      Token("Semicolon", ";"), Token("Print", "print"), Str(""),
      Token("And", "and"), Id("say"), Token("LeftParen", "("),
      Token("Nil", "nil"), Token("RightParen", ")"), Token("Semicolon", ";"),
      Token("Eof", "")>>,
    <<Token("Print", "print"), Token("Nil", "nil"), Token("Or", "or"),
      Id("say"), Token("LeftParen", "("), Num(<<4>>),
      Token("RightParen", ")"), Token("Semicolon", ";"),
      Token("Print", "print"), Token("False", "false"), Token("Or", "or"),
      Id("say"), Token("LeftParen", "("), Token("False", "false"),
      Token("RightParen", ")"), Token("Semicolon", ";"),
      Token("Print", "print"), Num(<<0>>), Token("Or", "or"), Id("say"),
      Token("LeftParen", "("), Num(<<5>>), Token("RightParen", ")"),
      Token("Semicolon", ";"), Token("Print", "print"), Str("s"),
      Token("Or", "or"), Id("say"), Token("LeftParen", "("), Num(<<6>>),
      Token("RightParen", ")"), Token("Semicolon", ";"),
      Token("Print", "print"), Token("True", "true"), Token("Or", "or"),
      Id("say"), Token("LeftParen", "("), Num(<<7>>),
      Token("RightParen", ")"), Token("Semicolon", ";"), Token("Eof", "")>>,
    <<Token("LeftBrace", "{"), Token("Var", "var"), Id("t"),
      Token("Equal", "="), Num(<<1>>), Token("And", "and"), Num(<<2>>),
      Token("Or", "or"), Num(<<3>>), Token("Semicolon", ";"),
      Token("Var", "var"), Id("u"), Token("Equal", "="), Token("Nil", "nil"),
      Token("Or", "or"), Token("False", "false"), Token("And", "and"),
      Num(<<4>>), Token("Semicolon", ";"), Token("Print", "print"), Id("t"),
      Token("Semicolon", ";"), Token("Print", "print"), Id("u"),
      Token("Semicolon", ";"), Token("RightBrace", "}"), Token("Eof", "")>>
  >>

\* this and super outside the classes that give them a meaning, and inside
\* them.
\*   > print this;
\*   > fun f() { return this; }
\*   > print super.m;
\*   > class A { m() { return super.m(); } }
\*   > class B < A { m() { class C { n() { return super.n; } } } }
\*   > class D { m() { class E < D { n() { return super.m; } } return
\*     this; } k() { fun g() { return this; } return g; } }
\*   > class F < D { m() { class G {} return super.m; } }
\*   > class H {} print this;
\*   > print D().k()(); print F().m();
Session_this_super ==
  <<
    <<Token("Print", "print"), Token("This", "this"), Token("Semicolon", ";"),
      Token("Eof", "")>>,
    <<Token("Fun", "fun"), Id("f"), Token("LeftParen", "("),
      Token("RightParen", ")"), Token("LeftBrace", "{"),
      Token("Return", "return"), Token("This", "this"),
      Token("Semicolon", ";"), Token("RightBrace", "}"), Token("Eof", "")>>,
    <<Token("Print", "print"), Token("Super", "super"), Token("Dot", "."),
      Id("m"), Token("Semicolon", ";"), Token("Eof", "")>>,
    <<Token("Class", "class"), Id("A"), Token("LeftBrace", "{"), Id("m"),
      Token("LeftParen", "("), Token("RightParen", ")"),
      Token("LeftBrace", "{"), Token("Return", "return"),
      Token("Super", "super"), Token("Dot", "."), Id("m"),
      Token("LeftParen", "("), Token("RightParen", ")"),
      Token("Semicolon", ";"), Token("RightBrace", "}"),
      Token("RightBrace", "}"), Token("Eof", "")>>,
    <<Token("Class", "class"), Id("B"), Token("Less", "<"), Id("A"),
      Token("LeftBrace", "{"), Id("m"), Token("LeftParen", "("),
      Token("RightParen", ")"), Token("LeftBrace", "{"),
      Token("Class", "class"), Id("C"), Token("LeftBrace", "{"), Id("n"),
      Token("LeftParen", "("), Token("RightParen", ")"),
      Token("LeftBrace", "{"), Token("Return", "return"),
      Token("Super", "super"), Token("Dot", "."), Id("n"),
      Token("Semicolon", ";"), Token("RightBrace", "}"),
      Token("RightBrace", "}"), Token("RightBrace", "}"),
      Token("RightBrace", "}"), Token("Eof", "")>>,
    <<Token("Class", "class"), Id("D"), Token("LeftBrace", "{"), Id("m"),
      Token("LeftParen", "("), Token("RightParen", ")"),
      Token("LeftBrace", "{"), Token("Class", "class"), Id("E"),
      Token("Less", "<"), Id("D"), Token("LeftBrace", "{"), Id("n"),
      Token("LeftParen", "("), Token("RightParen", ")"),
      Token("LeftBrace", "{"), Token("Return", "return"),
      Token("Super", "super"), Token("Dot", "."), Id("m"),
      Token("Semicolon", ";"), Token("RightBrace", "}"),
      Token("RightBrace", "}"), Token("Return", "return"),
      Token("This", "this"), Token("Semicolon", ";"),
      Token("RightBrace", "}"), Id("k"), Token("LeftParen", "("),
      Token("RightParen", ")"), Token("LeftBrace", "{"), Token("Fun", "fun"),
      Id("g"), Token("LeftParen", "("), Token("RightParen", ")"),
      Token("LeftBrace", "{"), Token("Return", "return"),
      Token("This", "this"), Token("Semicolon", ";"),
      Token("RightBrace", "}"), Token("Return", "return"), Id("g"),
      Token("Semicolon", ";"), Token("RightBrace", "}"),
      Token("RightBrace", "}"), Token("Eof", "")>>,
    <<Token("Class", "class"), Id("F"), Token("Less", "<"), Id("D"),
      Token("LeftBrace", "{"), Id("m"), Token("LeftParen", "("),
      Token("RightParen", ")"), Token("LeftBrace", "{"),
      Token("Class", "class"), Id("G"), Token("LeftBrace", "{"),
      Token("RightBrace", "}"), Token("Return", "return"),
      Token("Super", "super"), Token("Dot", "."), Id("m"),
      Token("Semicolon", ";"), Token("RightBrace", "}"),
      Token("RightBrace", "}"), Token("Eof", "")>>,
    <<Token("Class", "class"), Id("H"), Token("LeftBrace", "{"),
      Token("RightBrace", "}"), Token("Print", "print"),
      Token("This", "this"), Token("Semicolon", ";"), Token("Eof", "")>>,
    <<Token("Print", "print"), Id("D"), Token("LeftParen", "("),
      Token("RightParen", ")"), Token("Dot", "."), Id("k"),
      Token("LeftParen", "("), Token("RightParen", ")"),
      Token("LeftParen", "("), Token("RightParen", ")"),
      Token("Semicolon", ";"), Token("Print", "print"), Id("F"),
      Token("LeftParen", "("), Token("RightParen", ")"), Token("Dot", "."),
      Id("m"), Token("LeftParen", "("), Token("RightParen", ")"),
      Token("Semicolon", ";"), Token("Eof", "")>>
  >>


Sessions ==
  { Session_strings,
    Session_dropped_class,
    Session_counter,
    Session_runtime_errors,
    Session_compile_errors,
    Session_recursion,
    Session_classes,
    Session_super,
    Session_logic,
    Session_this_super,
    Session_control_flow,
    Session_initializers,
    Session_many_upvalues,
    Session_stale_upvalue }


\* The token `nil` n times, separated by commas.
Nils(n) ==
  [i \in 1 .. 2 * n - 1 |->
     IF i % 2 = 1 THEN Token("Nil", "nil") ELSE Token("Comma", ",")]

\* A function of 255 parameters that calls itself with them until the frames
\* run out.
\*   > fun f(a1, ..., a255) { f(a1, ..., a255); }
\*   > f(nil, ..., nil);
Session_wide_frames ==
  <<
    <<Token("Fun", "fun"), Id("f"), Token("LeftParen", "(")>>
      \o Names("a", U8_MAX)
      \o <<Token("RightParen", ")"), Token("LeftBrace", "{"), Id("f"),
            Token("LeftParen", "(")>>
      \o Names("a", U8_MAX)
      \o <<Token("RightParen", ")"), Token("Semicolon", ";"),
            Token("RightBrace", "}"), Token("Eof", "")>>,
    <<Id("f"), Token("LeftParen", "(")>>
      \o Nils(U8_MAX)
      \o <<Token("RightParen", ")"), Token("Semicolon", ";"),
            Token("Eof", "")>>
  >>

\* The same, with a temporary under the callee in each frame.
\*   > fun f(a1, ..., a255) { return nil == f(a1, ..., a255); }
\*   > print nil == f(nil, ..., nil);
Session_wide_frames_with_temporaries ==
  <<
    <<Token("Fun", "fun"), Id("f"), Token("LeftParen", "(")>>
      \o Names("a", U8_MAX)
      \o <<Token("RightParen", ")"), Token("LeftBrace", "{"),
            Token("Return", "return"), Token("Nil", "nil"),
            Token("EqualEqual", "=="), Id("f"), Token("LeftParen", "(")>>
      \o Names("a", U8_MAX)
      \o <<Token("RightParen", ")"), Token("Semicolon", ";"),
            Token("RightBrace", "}"), Token("Eof", "")>>,
    <<Token("Print", "print"), Token("Nil", "nil"),
      Token("EqualEqual", "=="), Id("f"), Token("LeftParen", "(")>>
      \o Nils(U8_MAX)
      \o <<Token("RightParen", ")"), Token("Semicolon", ";"),
            Token("Eof", "")>>
  >>

\* The sessions whose frames fill the stack.
DeepSessions == {Session_wide_frames, Session_wide_frames_with_temporaries}

\* The times native::clock may read.
MaxNow == 1

Times == 0 .. MaxNow


\* ----------------------------------------------------------- the machine

VARIABLES frames, stack, globals, open_upvalues, interner, heap, out, err,
          status, session, line, compiler

vars == <<frames, stack, globals, open_upvalues, interner, heap, out, err,
          status, session, line, compiler>>

\* The VM struct and what it points to, as the record the operators take.
VM ==
  [ frames |-> frames, stack |-> stack, globals |-> globals,
    open_upvalues |-> open_upvalues, interner |-> interner, heap |-> heap,
    out |-> out, err |-> err, status |-> status, ret |-> 0 ]

Becomes(vm) ==
  /\ frames' = vm.frames
  /\ stack' = vm.stack
  /\ globals' = vm.globals
  /\ open_upvalues' = vm.open_upvalues
  /\ interner' = vm.interner
  /\ heap' = vm.heap
  /\ out' = vm.out
  /\ err' = vm.err
  /\ status' = vm.status

\* The Compiler of a call of compile is made in interpret and dropped when
\* compile returns: between the steps of the machine there is none.
NoCompiler == [fcs |-> <<>>]

\* main: one VM, before the first source.
Init ==
  /\ session \in Sessions
  /\ line = 0
  /\ frames = VM_new.frames
  /\ stack = VM_new.stack
  /\ globals = VM_new.globals
  /\ open_upvalues = VM_new.open_upvalues
  /\ interner = VM_new.interner
  /\ heap = VM_new.heap
  /\ out = VM_new.out
  /\ err = VM_new.err
  /\ status = VM_new.status
  /\ compiler = NoCompiler

\* The instruction run is about to execute.
Instruction == At(frame_chunk(VM).code, top_frame(VM).ip)

Running ==
  /\ status = "running"
  /\ frames # <<>>
  /\ top_frame(VM).ip < Len(frame_chunk(VM).code)

\* repl / run_file: the next source is handed to interpret.  The interner of
\* the compilation is a new one each time.
Interpret ==
  /\ status \in {"Ready", "Ok", "CompileError", "RuntimeError"}
  /\ line < Len(session)
  /\ Becomes(interpret(VM, session[line + 1], line + 1))
  /\ line' = line + 1
  /\ UNCHANGED <<session, compiler>>

\* One iteration of run on the instruction op: the byte is read and ip
\* advanced (read_byte), then the arm of op is taken, leaving the VM as vm.
Step(op, vm) ==
  /\ Running
  /\ Instruction = op
  /\ Becomes(vm)
  /\ UNCHANGED <<session, line, compiler>>

OP_CONSTANT == Step(OpCode.Constant, op_constant(read_byte(VM)))
OP_NIL == Step(OpCode.Nil, op_nil(read_byte(VM)))
OP_TRUE == Step(OpCode.True, op_true(read_byte(VM)))
OP_FALSE == Step(OpCode.False, op_false(read_byte(VM)))
OP_POP == Step(OpCode.Pop, op_pop(read_byte(VM)))
OP_GET_LOCAL == Step(OpCode.GetLocal, op_get_local(read_byte(VM)))
OP_SET_LOCAL == Step(OpCode.SetLocal, op_set_local(read_byte(VM)))
OP_GET_GLOBAL == Step(OpCode.GetGlobal, op_get_global(read_byte(VM)))
OP_DEFINE_GLOBAL == Step(OpCode.DefineGlobal, op_define_global(read_byte(VM)))
OP_SET_GLOBAL == Step(OpCode.SetGlobal, op_set_global(read_byte(VM)))
OP_GET_UPVALUE == Step(OpCode.GetUpvalue, op_get_upvalue(read_byte(VM)))
OP_SET_UPVALUE == Step(OpCode.SetUpvalue, op_set_upvalue(read_byte(VM)))
OP_GET_PROPERTY == Step(OpCode.GetProperty, op_get_property(read_byte(VM)))
OP_SET_PROPERTY == Step(OpCode.SetProperty, op_set_property(read_byte(VM)))
OP_GET_SUPER == Step(OpCode.GetSuper, op_get_super(read_byte(VM)))
OP_EQUAL == Step(OpCode.Equal, op_equal(read_byte(VM)))
OP_GREATER == Step(OpCode.Greater, op_greater(read_byte(VM)))
OP_LESS == Step(OpCode.Less, op_less(read_byte(VM)))
OP_ADD == Step(OpCode.Add, op_add(read_byte(VM)))
OP_SUBTRACT == Step(OpCode.Subtract, op_subtract(read_byte(VM)))
OP_MULTIPLY == Step(OpCode.Multiply, op_multiply(read_byte(VM)))
OP_DIVIDE == Step(OpCode.Divide, op_divide(read_byte(VM)))
OP_NOT == Step(OpCode.Not, op_not(read_byte(VM)))
OP_NEGATE == Step(OpCode.Negate, op_negate(read_byte(VM)))
OP_PRINT == Step(OpCode.Print_, op_print(read_byte(VM)))
OP_JUMP == Step(OpCode.Jump, op_jump(read_byte(VM)))
OP_JUMP_IF_FALSE == Step(OpCode.JumpIfFalse, op_jump_if_false(read_byte(VM)))
OP_LOOP == Step(OpCode.Loop, op_loop(read_byte(VM)))
OP_CALL ==
  \E now \in Times : Step(OpCode.Call, op_call(read_byte(VM), now))
OP_INVOKE ==
  \E now \in Times : Step(OpCode.Invoke, op_invoke(read_byte(VM), now))
OP_SUPER_INVOKE == Step(OpCode.SuperInvoke, op_super_invoke(read_byte(VM)))
OP_CLOSURE == Step(OpCode.Closure, op_closure(read_byte(VM)))
OP_CLOSE_UPVALUE == Step(OpCode.CloseUpvalue, op_close_upvalue(read_byte(VM)))
OP_RETURN == Step(OpCode.Return, op_return(read_byte(VM)))
OP_CLASS == Step(OpCode.Class, op_class(read_byte(VM)))
OP_INHERIT == Step(OpCode.Inherit, op_inherit(read_byte(VM)))
OP_METHOD == Step(OpCode.Method, op_method(read_byte(VM)))

Next ==
  \/ Interpret
  \/ OP_CONSTANT \/ OP_NIL \/ OP_TRUE \/ OP_FALSE \/ OP_POP
  \/ OP_GET_LOCAL \/ OP_SET_LOCAL
  \/ OP_GET_GLOBAL \/ OP_DEFINE_GLOBAL \/ OP_SET_GLOBAL
  \/ OP_GET_UPVALUE \/ OP_SET_UPVALUE
  \/ OP_GET_PROPERTY \/ OP_SET_PROPERTY \/ OP_GET_SUPER
  \/ OP_EQUAL \/ OP_GREATER \/ OP_LESS
  \/ OP_ADD \/ OP_SUBTRACT \/ OP_MULTIPLY \/ OP_DIVIDE
  \/ OP_NOT \/ OP_NEGATE \/ OP_PRINT
  \/ OP_JUMP \/ OP_JUMP_IF_FALSE \/ OP_LOOP
  \/ OP_CALL \/ OP_INVOKE \/ OP_SUPER_INVOKE
  \/ OP_CLOSURE \/ OP_CLOSE_UPVALUE \/ OP_RETURN
  \/ OP_CLASS \/ OP_INHERIT \/ OP_METHOD

Spec == Init /\ [][Next]_vars

\* The machine of the deep sessions: run is followed from one call or return
\* instruction to the next.
InitDeep ==
  /\ session \in DeepSessions
  /\ line = 0
  /\ frames = VM_new.frames
  /\ stack = VM_new.stack
  /\ globals = VM_new.globals
  /\ open_upvalues = VM_new.open_upvalues
  /\ interner = VM_new.interner
  /\ heap = VM_new.heap
  /\ out = VM_new.out
  /\ err = VM_new.err
  /\ status = VM_new.status
  /\ compiler = NoCompiler

\* The iterations of run up to its return or to the next call or return
\* instruction: that instruction is the first that the next step executes.
Run ==
  /\ Running
  /\ \E now \in Times : Becomes(run_turns(VM, RunHalvings, now))
  /\ UNCHANGED <<session, line, compiler>>

NextDeep == Interpret \/ Run

SpecDeep == InitDeep /\ [][NextDeep]_vars

\* The compiler alone, between the declarations of one function body: the
\* steps of block (begin_scope, the declarations, end_scope), taken one at a
\* time.  Each declaration is compiled from its own tokens.
MaxScopeDepth == 2

MaxLocals == 3

MaxCode == 6

\*   var a;   var b;   fun f() { return a; }   fun g() { b = 2; }
Declarations_ ==
  {
    <<Token("Var", "var"), Id("a"), Token("Semicolon", ";"), Token("Eof", "")>>,
    <<Token("Var", "var"), Id("b"), Token("Semicolon", ";"), Token("Eof", "")>>,
    <<Token("Fun", "fun"), Id("f"), Token("LeftParen", "("),
      Token("RightParen", ")"), Token("LeftBrace", "{"),
      Token("Return", "return"), Id("a"), Token("Semicolon", ";"),
      Token("RightBrace", "}"), Token("Eof", "")>>,
    <<Token("Fun", "fun"), Id("g"), Token("LeftParen", "("),
      Token("RightParen", ")"), Token("LeftBrace", "{"), Id("b"),
      Token("Equal", "="), Num(<<2>>), Token("Semicolon", ";"),
      Token("RightBrace", "}"), Token("Eof", "")>>
  }

\* Compiler::new for the script, before the first token.
InitScopes ==
  /\ session = <<>>
  /\ line = 0
  /\ frames = VM_new.frames
  /\ stack = VM_new.stack
  /\ globals = VM_new.globals
  /\ open_upvalues = VM_new.open_upvalues
  /\ interner = VM_new.interner
  /\ heap = VM_new.heap
  /\ out = VM_new.out
  /\ err = VM_new.err
  /\ status = VM_new.status
  /\ compiler =
       [ tokens |-> <<>>, pos |-> 0,
         current |-> NoToken, previous |-> NoToken,
         had_error |-> FALSE, panic_mode |-> FALSE, errors |-> <<>>,
         fcs |-> << [ function |-> Function_new,
                      function_type |-> "Script",
                      locals |-> << [name |-> "", depth |-> 0, is_captured |-> FALSE] >>,
                      upvalues |-> <<>>,
                      scope_depth |-> 0 ] >>,
         classes |-> <<>>,
         interner |-> {}, rc |-> 1, ret |-> 0 ]

UnchangedMachine ==
  UNCHANGED <<frames, stack, globals, open_upvalues, interner, heap, out, err,
              status, session, line>>

\* `{`: statement calls begin_scope before block.
BeginScope ==
  /\ current_fc(compiler).scope_depth < MaxScopeDepth
  /\ compiler' = begin_scope(compiler)
  /\ UnchangedMachine

\* One turn of block_loop: declaration, on the tokens of one declaration.
Declaration(tokens) ==
  /\ current_fc(compiler).scope_depth > 0
  /\ Len(current_fc(compiler).locals) <= MaxLocals
  /\ Len(current_chunk(compiler).code) < MaxCode
  /\ compiler' = self("declaration",
                      <<self("advance", <<[compiler EXCEPT !.tokens = tokens, !.pos = 0,
                                                           !.current = NoToken]>>)>>)
  /\ UnchangedMachine

\* `}`: statement calls end_scope after block.
EndScope ==
  /\ current_fc(compiler).scope_depth > 0
  /\ compiler' = end_scope(compiler)
  /\ UnchangedMachine

NextScopes ==
  \/ BeginScope
  \/ \E tokens \in Declarations_ : Declaration(tokens)
  \/ EndScope

SpecScopes == InitScopes /\ [][NextScopes]_vars

\* The compiler inside nested function bodies: functions are entered one
\* inside the other and variables are named, one step at a time.
\*   { var a; fun f(p) { ... fun g(q) { ... } } }
MaxNesting == 3

MaxUses == 2

ParameterNames == {"p", "q"}

VariableNames == {"a", "p", "q"}

\* The script's Compiler after `{ var a;`.
InitCaptures ==
  /\ session = <<>>
  /\ line = 0
  /\ frames = VM_new.frames
  /\ stack = VM_new.stack
  /\ globals = VM_new.globals
  /\ open_upvalues = VM_new.open_upvalues
  /\ interner = VM_new.interner
  /\ heap = VM_new.heap
  /\ out = VM_new.out
  /\ err = VM_new.err
  /\ status = VM_new.status
  /\ compiler =
       self("declaration", <<advance(begin_scope(
         [ tokens |-> <<Token("Var", "var"), Id("a"), Token("Semicolon", ";"),
                        Token("Eof", "")>>,
           pos |-> 0,
           current |-> NoToken, previous |-> NoToken,
           had_error |-> FALSE, panic_mode |-> FALSE, errors |-> <<>>,
           fcs |-> << [ function |-> Function_new,
                        function_type |-> "Script",
                        locals |-> << [name |-> "", depth |-> 0,
                                       is_captured |-> FALSE] >>,
                        upvalues |-> <<>>,
                        scope_depth |-> 0 ] >>,
           classes |-> <<>>,
           interner |-> {}, rc |-> 1, ret |-> 0 ]))>>)

\* `fun f(param) {`: fun_declaration has taken the name, function begins.
BeginFunction(param) ==
  /\ Len(compiler.fcs) < MaxNesting
  /\ compiler' = self("function_begin", <<
       advance(advance([compiler EXCEPT
            !.tokens = <<Id("f"), Token("LeftParen", "("), Id(param),
                         Token("RightParen", ")"), Token("LeftBrace", "{"),
                         Token("Eof", "")>>,
            !.pos = 0, !.current = NoToken])), "Function">>)
  /\ UnchangedMachine

\* `name` as an expression: advance makes it parser.previous and the prefix
\* rule of Identifier, variable, compiles it.
Variable(name) ==
  /\ Len(compiler.fcs) > 1
  /\ Len(current_chunk(compiler).code) < 2 * MaxUses
  /\ compiler' = self("variable", <<
       advance(advance([compiler EXCEPT
            !.tokens = <<Id(name), Token("Eof", "")>>,
            !.pos = 0, !.current = NoToken])), FALSE>>)
  /\ UnchangedMachine

NextCaptures ==
  \/ \E param \in ParameterNames : BeginFunction(param)
  \/ \E name \in VariableNames : Variable(name)

SpecCaptures == InitCaptures /\ [][NextCaptures]_vars

\* The compiler between the turns of its loops and between the calls that
\* report errors and recover from them, on sources with mistakes in them.
MaxErrors == 2

\* The Compiler of compile(source) and its script FunctionCompiler, before the
\* first advance.
Compiler_new(tokens) ==
  [ tokens |-> tokens, pos |-> 0,
    current |-> NoToken, previous |-> NoToken,
    had_error |-> FALSE, panic_mode |-> FALSE, errors |-> <<>>,
    fcs |-> << [ function |-> Function_new,
                 function_type |-> "Script",
                 locals |-> << [name |-> "", depth |-> 0, is_captured |-> FALSE] >>,
                 upvalues |-> <<>>,
                 scope_depth |-> 0 ] >>,
    classes |-> <<>>,
    interner |-> {}, rc |-> 1, ret |-> 0 ]

\* What the scanner says of a character that begins no token.
Unexpected == Token("Error", "Unexpected character.")

\*   print 1 + ; print ) ; var x = 3 ;
\*   @ var ; print ) 1 @ 2 ; print ( ;
\*   { var 1 ; var 2 ; } print 3
\*   class A < B { m ( ) { this ; } 1 n ( ) { super . m ; } }
SourcesWithMistakes ==
  {
    <<Token("Print", "print"), Num(<<1>>), Token("Plus", "+"),
      Token("Semicolon", ";"), Token("Print", "print"),
      Token("RightParen", ")"), Token("Semicolon", ";"), Token("Var", "var"),
      Id("x"), Token("Equal", "="), Num(<<3>>), Token("Semicolon", ";"),
      Token("Eof", "")>>,
    <<Unexpected, Token("Var", "var"), Token("Semicolon", ";"),
      Token("Print", "print"), Token("RightParen", ")"), Num(<<1>>),
      Unexpected, Num(<<2>>), Token("Semicolon", ";"),
      Token("Print", "print"), Token("LeftParen", "("),
      Token("Semicolon", ";"), Token("Eof", "")>>,
    <<Token("LeftBrace", "{"), Token("Var", "var"), Num(<<1>>),
      Token("Semicolon", ";"), Token("Var", "var"), Num(<<2>>),
      Token("Semicolon", ";"), Token("RightBrace", "}"),
      Token("Print", "print"), Num(<<3>>), Token("Eof", "")>>,
    <<Token("Class", "class"), Id("A"), Token("Less", "<"), Id("B"),
      Token("LeftBrace", "{"), Id("m"), Token("LeftParen", "("),
      Token("RightParen", ")"), Token("LeftBrace", "{"),
      Token("This", "this"), Token("Semicolon", ";"),
      Token("RightBrace", "}"), Num(<<1>>), Id("n"), Token("LeftParen", "("),
      Token("RightParen", ")"), Token("LeftBrace", "{"),
      Token("Super", "super"), Token("Dot", "."), Id("m"),
      Token("Semicolon", ";"), Token("RightBrace", "}"),
      Token("RightBrace", "}"), Token("Eof", "")>>
  }

\* The methods of the Compiler that the steps below are return `()`: nothing
\* of what a callee has returned is left in ret.
Unit(c) == [c EXCEPT !.ret = <<>>]

\* compile, up to its loop.
InitParser ==
  /\ session = <<>>
  /\ line = 0
  /\ frames = VM_new.frames
  /\ stack = VM_new.stack
  /\ globals = VM_new.globals
  /\ open_upvalues = VM_new.open_upvalues
  /\ interner = VM_new.interner
  /\ heap = VM_new.heap
  /\ out = VM_new.out
  /\ err = VM_new.err
  /\ status = VM_new.status
  /\ \E tokens \in SourcesWithMistakes :
       compiler = Unit(advance(Compiler_new(tokens)))

\* compile has not returned.
Compiling == compiler.fcs # <<>>

\* The loop of compile or, inside braces, that of block goes on.
DeclarationsGoOn ==
  /\ Compiling
  /\ compiler.classes = <<>>
  /\ ~check(compiler, "Eof")
  /\ current_fc(compiler).scope_depth > 0 => ~check(compiler, "RightBrace")

\* One turn of the loop of compile or of block: a declaration.
DeclarationTurn ==
  /\ DeclarationsGoOn
  /\ compiler' = Unit(self("declaration", <<compiler>>))
  /\ UnchangedMachine

\* declaration at `{`: statement, up to the loop of block.
BeginBlock ==
  /\ Compiling
  /\ compiler.classes = <<>>
  /\ check(compiler, "LeftBrace")
  /\ compiler' = Unit(begin_scope(advance(compiler)))
  /\ UnchangedMachine

\* The loop of block has ended: the rest of block and of statement, and of
\* the declaration that called it.
EndBlock ==
  /\ Compiling
  /\ compiler.classes = <<>>
  /\ current_fc(compiler).scope_depth > 0
  /\ check(compiler, "RightBrace") \/ check(compiler, "Eof")
  /\ compiler' =
       Unit(declaration_end(block_end(compiler)))
  /\ UnchangedMachine

\* declaration at `class`: class_declaration, up to the loop over the methods.
BeginClass ==
  /\ Compiling
  /\ compiler.classes = <<>>
  /\ check(compiler, "Class")
  /\ compiler' = Unit(self("class_begin", <<advance(compiler)>>))
  /\ UnchangedMachine

\* The loop of class_declaration goes on.
MethodsGoOn ==
  /\ Compiling
  /\ compiler.classes # <<>>
  /\ ~check(compiler, "RightBrace") /\ ~check(compiler, "Eof")

\* One turn of the loop of class_declaration: a method.
MethodTurn ==
  /\ MethodsGoOn
  /\ compiler' = Unit(self("method", <<compiler>>))
  /\ UnchangedMachine

\* The loop over the methods has ended: the rest of class_declaration, and of
\* the declaration that called it.
EndClass ==
  /\ Compiling
  /\ compiler.classes # <<>>
  /\ check(compiler, "RightBrace") \/ check(compiler, "Eof")
  /\ compiler' =
       Unit(declaration_end(class_end(compiler)))
  /\ UnchangedMachine

\* consume, as the statements call it.
Consume(token_type, message) ==
  /\ Compiling
  /\ Len(compiler.errors) < MaxErrors
  /\ compiler' = Unit(consume(compiler, token_type, message))
  /\ UnchangedMachine

\* error, as the statements and expressions call it.
Error(message) ==
  /\ Compiling
  /\ Len(compiler.errors) < MaxErrors
  /\ compiler' = Unit(error(compiler, message))
  /\ UnchangedMachine

\* The end of declaration: synchronize, in panic mode.
Synchronize ==
  /\ Compiling
  /\ compiler.panic_mode
  /\ compiler' = Unit(synchronize(compiler))
  /\ UnchangedMachine

\* What compile returns, after end_compiler.
compile_returns(c) ==
  [c EXCEPT !.ret = [ok |-> ~c.had_error, function |-> c.ret, errors |-> c.errors]]

\* The loop of compile has ended at Eof: end_compiler, and ret is what compile
\* returns.
Finish ==
  /\ Compiling
  /\ compiler.classes = <<>>
  /\ current_fc(compiler).scope_depth = 0
  /\ check(compiler, "Eof")
  /\ compiler' =
       compile_returns(end_compiler(match_token(compiler, "Eof")))
  /\ UnchangedMachine

NextParser ==
  \/ DeclarationTurn
  \/ BeginBlock
  \/ EndBlock
  \/ BeginClass
  \/ MethodTurn
  \/ EndClass
  \/ Consume("Semicolon", "Expect ';' after value.")
  \/ Error("Can't return from top-level code.")
  \/ Synchronize
  \/ Finish

SpecParser == InitParser /\ [][NextParser]_vars

\* What a step of the compiler changes: the place in the source, the errors
\* reported, the mode, and the classes, functions and blocks that are open.
Progress ==
  << compiler.pos, Len(compiler.errors), compiler.panic_mode,
     Len(compiler.classes), Len(compiler.fcs),
     IF Compiling THEN current_fc(compiler).scope_depth ELSE 0 >>

\* compile goes on: the thread that runs it is not suspended for ever.  This
\* is weak fairness of NextParser, written with what it comes to here: until
\* compile has returned some step can be taken, and a step changes Progress.
SpecParserFair == SpecParser /\ ([]<>(~Compiling) \/ []<><<TRUE>>_Progress)



\* ------------------------------------------------------------------ debug.rs

\* simple_instruction, byte_instruction and constant_instruction,
\* jump_instruction and invoke_instruction: the number of operand bytes.
operand_bytes(instruction) ==
  CASE instruction \in {OpCode.Constant, OpCode.GetLocal, OpCode.SetLocal,
                        OpCode.GetGlobal, OpCode.DefineGlobal, OpCode.SetGlobal,
                        OpCode.GetUpvalue, OpCode.SetUpvalue, OpCode.GetProperty,
                        OpCode.SetProperty, OpCode.GetSuper, OpCode.Call,
                        OpCode.Class, OpCode.Method} -> 1
    [] instruction \in {OpCode.Jump, OpCode.JumpIfFalse, OpCode.Loop,
                        OpCode.Invoke, OpCode.SuperInvoke} -> 2
    [] OTHER -> 0

\* disassemble_instruction: the offset of the next instruction (what it prints
\* is left out).  An index out of bounds panics: the result is then an offset
\* past the end of the code.
disassemble_instruction(chunk, offset) ==
  LET code == chunk.code
      instruction == At(code, offset)
      past_the_end == Len(code) + 1
  IN IF instruction = OpCode.Closure
       THEN IF offset + 1 >= Len(code) THEN past_the_end
            ELSE LET constant == At(code, offset + 1) IN
                 IF constant >= Len(chunk.constants) THEN past_the_end
                 ELSE IF At(chunk.constants, constant).t = "Function"
                   THEN offset + 2 + 2 * At(chunk.constants, constant).f.upvalue_count
                   ELSE offset + 2
       ELSE IF offset + operand_bytes(instruction) >= Len(code)
         THEN past_the_end
         ELSE offset + 1 + operand_bytes(instruction)

\* ------------------------------------------------------------- properties

\* The operands of a binary instruction: a below b on the stack.
OperandA == peek(VM, 1)

OperandB == peek(VM, 0)

\* The next instruction is op and `run` is about to execute it.
At_(op) == Running /\ Instruction = op

\* The allocations reachable through strong references from a set of them.
RECURSIVE ReachableFrom(_, _)
ReachableFrom(objects, S) ==
  LET T == S \cup UNION {ObjectRefs(objects[r]) : r \in S} IN
  IF T = S THEN S ELSE ReachableFrom(objects, T)

\* The instances the program can still get at: those reachable from the
\* stack, the globals, the frames' closures and the open upvalues, through
\* fields, upvalues, methods and bound-method receivers.
ReachableInstances ==
  {r \in ReachableFrom(heap, RootRefs(VM)) : heap[r].k = "Instance"}

\* C1: EQUAL on two strings yields true exactly when the two strings have the
\* same contents, whether they are literals of the source or results of ADD.
C1_EqualIsContentEquality ==
  [][(At_(OpCode.Equal) /\ Len(stack) >= 2
        /\ OperandA.t = "String" /\ OperandB.t = "String")
       => (status' = "running" /\ stack' # <<>>
             /\ Last(stack') = Bool(OperandA.s = OperandB.s))]_vars

\* C2: every reachable Instance has a class whose upgrade succeeds, and no
\* GET_PROPERTY or INVOKE fails because the class of an instance was
\* deallocated.
C2_ReachableInstanceHasClass ==
  /\ \A r \in ReachableInstances : upgrade(VM, heap[r].class)
  /\ \A i \in DOMAIN err : err[i] # <<"Instance's class has been deallocated.">>


\* The operand bytes of the instruction at ip, the i-th from 0.
Operand(i) == At(frame_chunk(VM).code, top_frame(VM).ip + 1 + i)

\* The cell the GET_UPVALUE or SET_UPVALUE at ip goes through.
Cell == At(frame_closure(VM).upvalues, Operand(0))

IsOpen(objects, r) == objects[r].closed = NoValue

\* CLOSURE: a pair (1, index) makes the new closure hold the cell that
\* open_upvalues has for the frame's slot index afterwards, which is the cell
\* it had before if it had one; a pair (0, index) makes it hold the cell of
\* the enclosing closure.  (Several pairs of one instruction name distinct
\* variables.)
CaptureShares ==
  (At_(OpCode.Closure) /\ status' = "running") =>
    LET fn == At(frame_chunk(VM).constants, Operand(0)).f
        closure == heap'[Last(stack').ref]
    IN /\ Len(closure.upvalues) = fn.upvalue_count
       /\ \A i \in 0 .. fn.upvalue_count - 1 :
            LET is_local == Operand(1 + 2 * i)
                index == Operand(2 + 2 * i)
                location == top_frame(VM).slot_offset + index
                cell == At(closure.upvalues, i)
            IN IF is_local # 0
                 THEN /\ location \in DOMAIN open_upvalues'
                      /\ cell = open_upvalues'[location]
                      /\ location \in DOMAIN open_upvalues
                           => cell = open_upvalues[location]
                      /\ IsOpen(heap', cell)
                      /\ heap'[cell].location = location
                 ELSE cell = At(frame_closure(VM).upvalues, index)

\* GET_UPVALUE and SET_UPVALUE through an open cell read and write the stack
\* slot of the local, the one GET_LOCAL and SET_LOCAL use; through a closed
\* cell they read and write the cell.
AccessGoesThroughCell ==
  /\ (At_(OpCode.GetUpvalue) /\ status' = "running") =>
       /\ stack' = Append(stack, IF IsOpen(heap, Cell)
                                   THEN At(stack, heap[Cell].location)
                                   ELSE heap[Cell].closed)
       /\ heap' = heap
  /\ (At_(OpCode.SetUpvalue) /\ status' = "running") =>
       IF IsOpen(heap, Cell)
         THEN /\ stack' = SetAt(stack, heap[Cell].location, Last(stack))
              /\ heap' = heap
         ELSE /\ stack' = stack
              /\ heap' = [heap EXCEPT ![Cell].closed = Last(stack)]

\* Closing a cell stores the value the slot has at that moment; a closed cell
\* changes only by a SET_UPVALUE through it; no closure ever changes the
\* cells it holds.
CloseKeepsSharing ==
  \A r \in DOMAIN heap :
    /\ r \in DOMAIN heap'
    /\ heap[r].k = "Closure" => heap'[r] = heap[r]
    /\ heap[r].k = "Upvalue" =>
         /\ IsOpen(heap, r) /\ ~IsOpen(heap', r)
              => heap'[r].closed = At(stack, heap[r].location)
         /\ IsOpen(heap, r) /\ IsOpen(heap', r) => heap'[r] = heap[r]
         /\ ~IsOpen(heap, r) /\ heap'[r] # heap[r]
              => At_(OpCode.SetUpvalue) /\ Cell = r

\* C3: two closures that capture the same live local hold one cell, so each
\* observes the other's writes and GET_LOCAL observes them too; after the
\* local is closed both read the final value and keep sharing the cell.
C3_ClosuresShareCapturedLocal ==
  [][CaptureShares /\ AccessGoesThroughCell /\ CloseKeepsSharing]_vars

\* Two closures hold one closed cell, and it has been written through after
\* it was closed: mk's get and inc after `i()`.
C3_SharedAfterClose ==
  \E c1, c2 \in DOMAIN heap :
    /\ c1 # c2 /\ heap[c1].k = "Closure" /\ heap[c2].k = "Closure"
    /\ \E i \in DOMAIN heap[c1].upvalues, j \in DOMAIN heap[c2].upvalues :
         /\ heap[c1].upvalues[i] = heap[c2].upvalues[j]
         /\ heap[heap[c1].upvalues[i]].closed = Number(3)
    /\ Len(out) >= 2 /\ out[1] = Display(VM, Number(2))
    /\ out[2] = Display(VM, Number(3))


\* C4: when a run ends with RuntimeError, the value stack, the frame stack
\* and the open-upvalue map are empty, and the globals are the ones the
\* failing instruction started with.
C4_RuntimeErrorResets ==
  [][(status # "RuntimeError" /\ status' = "RuntimeError") =>
       /\ stack' = <<>>
       /\ frames' = <<>>
       /\ open_upvalues' = EmptyMap
       /\ globals' = globals]_vars

\* f failed in `k() + nil`, two frames deep with c captured, after `a = 2`.
C4_FailedInsideCall ==
  /\ status = "RuntimeError"
  /\ err # <<>>
  /\ Last(err) = <<"Operands must be two numbers or two strings.">>
  /\ "a" \in DOMAIN globals /\ globals["a"] = Number(2)

\* The result of compiling the line that interpret is about to be given.
Compiled == self("compile", <<session[line + 1], line + 1>>)

\* C5: a source with a compile error makes interpret return CompileError
\* without executing anything: the stack, the frames, the globals and the
\* open upvalues are as before the call, and so are the heap and the output.
C5_CompileErrorRunsNothing ==
  [][(line' = line + 1 /\ ~Compiled.ok) =>
       /\ status' = "CompileError"
       /\ err' = err \o Compiled.errors
       /\ UNCHANGED <<stack, frames, globals, open_upvalues, heap, out>>]_vars

\* `a = 2; print a; return 1;` was rejected: a is still 1 and nothing more
\* was printed.
C5_RejectedLine ==
  /\ status = "CompileError"
  /\ line = 3
  /\ Last(err) = <<"Can't return from top-level code.">>
  /\ "a" \in DOMAIN globals /\ globals["a"] = Number(1)
  /\ Len(out) = 1

\* C6: while a frame is active, slot 0 of the running frame is on the stack.
C6_FrameSlotZeroOnStack ==
  frames # <<>> => Len(stack) >= top_frame(VM).slot_offset + 1

\* A callee without arguments or locals has just been entered: its window is
\* slot 0 alone.
C6_FrameOfOneSlot ==
  /\ Len(frames) >= 2
  /\ top_frame(VM).ip = 0
  /\ Len(stack) = top_frame(VM).slot_offset + 1


\* The frame stack is full.
AtFrameLimit == Len(frames) = FRAMES_MAX

\* What a call at the frame limit is said to do.
Overflows ==
  /\ frames' = <<>>
  /\ status' = "RuntimeError"
  /\ err' = Append(err, <<"Stack overflow.">>)

\* The CALL at ip calls a closure with as many arguments as its arity.
CallsClosureWithItsArity ==
  /\ At_(OpCode.Call)
  /\ Len(stack) > Operand(0)
  /\ LET callee == peek(VM, Operand(0)) IN
       /\ callee.t = "Obj"
       /\ heap[callee.ref].k = "Closure"
       /\ heap[callee.ref].function.arity = Operand(0)

RECURSIVE Orbit(_, _)
Orbit(f, S) ==
  LET T == S \cup {f[o] : o \in S} IN
  IF T = S THEN S ELSE Orbit([o \in DOMAIN f |-> f[f[o]]], T)

InstructionOffsets(chunk) ==
  LET n == Len(chunk.code)
      following == [o \in 0 .. n + 1 |->
                      IF o >= n THEN o
                      ELSE IF disassemble_instruction(chunk, o) > n THEN n + 1
                      ELSE disassemble_instruction(chunk, o)]
  IN Orbit(following, {0})

\* A function and the functions among its constants, and theirs.
RECURSIVE FunctionsOf(_)
FunctionsOf(f) ==
  {f} \cup UNION {FunctionsOf(f.chunk.constants[i].f) :
                    i \in {j \in DOMAIN f.chunk.constants :
                             f.chunk.constants[j].t = "Function"}}

\* The instructions of the chunk tile its code, each a known opcode, and each
\* CLOSURE is followed by its Function constant's upvalue_count pairs, whose
\* first byte is 0 or 1 and whose second byte is a slot or an upvalue of the
\* function being compiled.
ClosurePairsMatch(f) ==
  LET chunk == f.chunk
      code == chunk.code
      n == Len(code)
      offsets == InstructionOffsets(chunk)
  IN /\ n \in offsets
     /\ n + 1 \notin offsets
     /\ \A o \in offsets \ {n} :
          /\ from_byte_is_some(At(code, o))
          /\ At(code, o) = OpCode.Closure =>
               /\ At(chunk.constants, At(code, o + 1)).t = "Function"
               /\ \A i \in 0 .. At(chunk.constants, At(code, o + 1)).f.upvalue_count - 1 :
                    /\ At(code, o + 2 + 2 * i) \in {0, 1}
                    /\ At(code, o + 2 + 2 * i) = 0
                         => At(code, o + 3 + 2 * i) < f.upvalue_count
     /\ n >= 2 /\ At(code, n - 1) = OpCode.Return

\* CLOSURE reads the constant and upvalue_count pairs, makes a closure of
\* that many cells and leaves ip at the next instruction.
ClosureReadsItsPairs ==
  (At_(OpCode.Closure) /\ status' = "running") =>
    LET fn == At(frame_chunk(VM).constants, Operand(0)).f IN
    /\ Len(frames') = Len(frames)
    /\ Last(frames').ip = top_frame(VM).ip + 2 + 2 * fn.upvalue_count
    /\ Last(frames').ip = disassemble_instruction(frame_chunk(VM), top_frame(VM).ip)
    /\ Last(frames').ip \in InstructionOffsets(frame_chunk(VM))
    /\ Len(heap'[Last(stack').ref].upvalues) = fn.upvalue_count

\* C9: every OP_CLOSURE the compiler emits is followed by as many (is_local,
\* index) pairs as the upvalue_count of its Function constant, so that the VM
\* reads exactly those pairs and goes on at the next instruction.
C9_ClosurePairsMatchUpvalueCount ==
  /\ [][(line' = line + 1 /\ Compiled.ok) =>
          \A f \in FunctionsOf(Compiled.function) : ClosurePairsMatch(f)]_vars
  /\ [][ClosureReadsItsPairs]_vars

\* c has been made inside b inside a: its one cell is b's, taken with a pair
\* (0, 0), and b's is a's local w, taken with a pair (1, 2).
C9_ClosureOverEnclosingUpvalue ==
  \E b, c \in DOMAIN heap :
    /\ heap[b].k = "Closure" /\ heap[b].function.name = "b"
    /\ heap[c].k = "Closure" /\ heap[c].function.name = "c"
    /\ heap[c].function.upvalue_count = 1
    /\ heap[c].upvalues = heap[b].upvalues
    /\ Len(heap[c].upvalues) = 1

\* The target of the jump instruction at offset o of a chunk.
jump_target(chunk, o) ==
  LET jump == At(chunk.code, o + 1) * (U8_MAX + 1) + At(chunk.code, o + 2) IN
  IF At(chunk.code, o) = OpCode.Loop THEN o + 3 - jump ELSE o + 3 + jump

\* Every jump of the chunk has both operand bytes and a target inside the
\* code.
JumpsStayInside(f) ==
  \A o \in InstructionOffsets(f.chunk) \ {Len(f.chunk.code), Len(f.chunk.code) + 1} :
    At(f.chunk.code, o) \in {OpCode.Jump, OpCode.JumpIfFalse, OpCode.Loop} =>
      /\ o + 2 < Len(f.chunk.code)
      /\ jump_target(f.chunk, o) \in 0 .. Len(f.chunk.code) - 1

\* While the program runs, ip is the offset of a whole instruction of the
\* chunk, operands included, so that the reads of the next step stay inside
\* the code.
ReadsStayInside ==
  status = "running" =>
    /\ frames # <<>>
    /\ top_frame(VM).ip < Len(frame_chunk(VM).code)
    /\ disassemble_instruction(frame_chunk(VM), top_frame(VM).ip)
         <= Len(frame_chunk(VM).code)

\* C10: execution never reads a code byte at an index >= code.len(), and
\* every JUMP, JUMP_IF_FALSE and LOOP, taken or not, leaves ip in
\* [0, code.len()).
C10_IpStaysInsideCode ==
  /\ []ReadsStayInside
  /\ [][(line' = line + 1 /\ Compiled.ok) =>
          \A f \in FunctionsOf(Compiled.function) : JumpsStayInside(f)]_vars
  /\ [][(At_(OpCode.Jump) \/ At_(OpCode.JumpIfFalse) \/ At_(OpCode.Loop)) =>
          /\ status' = "running"
          /\ Len(frames') = Len(frames)
          /\ Last(frames').ip \in 0 .. Len(frame_chunk(VM).code) - 1
          /\ Last(frames').ip \in {top_frame(VM).ip + 3,
                                   jump_target(frame_chunk(VM), top_frame(VM).ip)}]_vars

\* The LOOP of `while (n < 2) ...` has just gone back to the condition.
C10_LoopTaken ==
  /\ status = "running"
  /\ Len(frames) = 1
  /\ \E o \in 0 .. Len(frame_chunk(VM).code) - 1 :
       /\ At(frame_chunk(VM).code, o) = OpCode.Loop
       /\ top_frame(VM).ip = jump_target(frame_chunk(VM), o)
       /\ top_frame(VM).ip < o
  /\ "n" \in DOMAIN globals /\ globals["n"] = Number(1)


\* The chunk has one line entry for each byte of code.
LinesMatchCode(f) == Len(f.chunk.lines) = Len(f.chunk.code)

\* C11: in every chunk the compiler produces, for a source it accepts or one
\* it rejects, lines.len() = code.len(): each byte written has one line
\* entry and patching a jump adds neither; the chunks of the closures of the
\* VM are such chunks.
C11_LinesMatchCode ==
  /\ [][line' = line + 1 =>
          \A f \in FunctionsOf(Compiled.function) : LinesMatchCode(f)]_vars
  /\ [](\A o \in DOMAIN heap :
          heap[o].k = "Closure" =>
            \A f \in FunctionsOf(heap[o].function) : LinesMatchCode(f))

\* A script with a patched forward jump and a loop is running: its chunk has
\* as many lines as bytes.
C11_PatchedChunkRuns ==
  /\ status = "running"
  /\ Len(frames) = 1
  /\ \E o, p \in InstructionOffsets(frame_chunk(VM)) :
       /\ o < Len(frame_chunk(VM).code) /\ p < Len(frame_chunk(VM).code)
       /\ At(frame_chunk(VM).code, o) = OpCode.JumpIfFalse
       /\ At(frame_chunk(VM).code, p) = OpCode.Loop
       /\ jump_target(frame_chunk(VM), o) > o
  /\ Len(frame_chunk(VM).lines) = Len(frame_chunk(VM).code)
  /\ Len(frame_chunk(VM).code) > 6

\* The name that the GET_GLOBAL, DEFINE_GLOBAL or SET_GLOBAL at ip is about.
GlobalName == At(frame_chunk(VM).constants, Operand(0)).s

\* C12: GET_GLOBAL or SET_GLOBAL of a name that is not in globals ends the run
\* with RuntimeError "Undefined variable '<name>'." and leaves globals as they
\* were, so a failed SET_GLOBAL creates no binding; DEFINE_GLOBAL binds the
\* name to the value it pops, whether or not the name was bound, and changes
\* no other binding.
C12_GlobalsByName ==
  [][/\ ((At_(OpCode.GetGlobal) \/ At_(OpCode.SetGlobal))
           /\ GlobalName \notin DOMAIN globals) =>
          /\ status' = "RuntimeError"
          /\ err' = Append(err, <<"Undefined variable '", GlobalName, "'.">>)
          /\ globals' = globals
     /\ At_(OpCode.DefineGlobal) =>
          /\ stack # <<>>
          /\ status' = "running"
          /\ DOMAIN globals' = DOMAIN globals \cup {GlobalName}
          /\ globals'[GlobalName] = Last(stack)
          /\ \A k \in DOMAIN globals \ {GlobalName} : globals'[k] = globals[k]
          /\ stack' = Front(stack)]_vars

\* `print undefined_;` and `undefined_ = 1;` have failed, undefined_ is not
\* bound, and `var a = "again";` has just replaced the nil that a was bound to.
C12_FailedAndRedefined ==
  /\ \E i \in 1 .. Len(err) - 1 :
       /\ err[i] = <<"Undefined variable '", "undefined_", "'.">>
       /\ err[i + 1] = <<"Undefined variable '", "undefined_", "'.">>
  /\ "undefined_" \notin DOMAIN globals
  /\ "a" \in DOMAIN globals /\ globals["a"].t = "String" /\ globals["a"].s = "again"
  /\ status = "running"
  /\ session[line] = Session_runtime_errors[10]

\* The `return` tokens of a source that no `fun` and no `class` precedes: they
\* start return statements of the script itself.
TopLevelReturns(tokens) ==
  {j \in DOMAIN tokens :
     /\ tokens[j].type = "Return"
     /\ \A i \in 1 .. j - 1 : tokens[i].type \notin {"Fun", "Class"}}

\* The braces open at token j among those from token i on.
BracesOpen(tokens, i, j) ==
  Cardinality({k \in i .. j : tokens[k].type = "LeftBrace"})
    - Cardinality({k \in i .. j : tokens[k].type = "RightBrace"})

\* The `return` tokens of a source that are followed by an expression and stand
\* in the body of a method named init, outside every function declared in it.
InitializerValueReturns(tokens) ==
  {j \in DOMAIN tokens :
     /\ tokens[j].type = "Return"
     /\ tokens[j + 1].type # "Semicolon"
     /\ \E i \in 2 .. j - 1 :
          /\ tokens[i].type = "Identifier" /\ tokens[i].lexeme = "init"
          /\ tokens[i - 1].type \in {"LeftBrace", "RightBrace"}
          /\ tokens[i + 1].type = "LeftParen"
          /\ \A k \in i .. j - 1 :
               /\ tokens[k].type # "Fun"
               /\ tokens[k].type = "RightBrace" => BracesOpen(tokens, i, k) >= 1}

\* The initializers among a compiled function and the functions in it: the
\* functions whose CLOSURE is followed by METHOD with the name init.
InitializersOf(script) ==
  {f \in FunctionsOf(script) :
     \E g \in FunctionsOf(script) :
       \E o \in InstructionOffsets(g.chunk) \ {Len(g.chunk.code), Len(g.chunk.code) + 1} :
         /\ At(g.chunk.code, o) = OpCode.Closure
         /\ At(g.chunk.constants, At(g.chunk.code, o + 1)).f = f
         /\ At(g.chunk.code, disassemble_instruction(g.chunk, o)) = OpCode.Method
         /\ At(g.chunk.constants,
               At(g.chunk.code, disassemble_instruction(g.chunk, o) + 1)).s = "init"}

\* Every RETURN of the function follows GET_LOCAL 0.
ReturnsSlotZero(f) ==
  \A o \in InstructionOffsets(f.chunk) \ {Len(f.chunk.code), Len(f.chunk.code) + 1} :
    At(f.chunk.code, o) = OpCode.Return =>
      /\ o - 2 \in InstructionOffsets(f.chunk)
      /\ At(f.chunk.code, o - 2) = OpCode.GetLocal
      /\ At(f.chunk.code, o - 1) = 0

\* The frame on top runs the init method of the class of the instance in its
\* slot 0.
InInitializer ==
  /\ frames # <<>>
  /\ Len(stack) > top_frame(VM).slot_offset
  /\ is_kind(VM, At(stack, top_frame(VM).slot_offset), "Instance")
  /\ LET klass == heap[heap[At(stack, top_frame(VM).slot_offset).ref].class] IN
     /\ "init" \in DOMAIN klass.methods
     /\ klass.methods["init"] = Obj(top_frame(VM).closure)

\* C13: a source with a return statement in its top-level code does not
\* compile, nor does one whose initializer returns a value ("Can't return a
\* value from an initializer."); an initializer with a bare `return;` compiles,
\* each RETURN of an initializer follows GET_LOCAL 0, and when it is executed
\* the call returns the instance in slot 0 of the frame.
C13_ReturnWhereAllowed ==
  /\ [][(line' = line + 1 /\ TopLevelReturns(session[line + 1]) # {}) =>
          /\ ~Compiled.ok
          /\ status' = "CompileError"
          /\ \E i \in DOMAIN Compiled.errors :
               Compiled.errors[i] = <<"Can't return from top-level code.">>]_vars
  /\ [][(line' = line + 1 /\ InitializerValueReturns(session[line + 1]) # {}) =>
          /\ ~Compiled.ok
          /\ status' = "CompileError"
          /\ \E i \in DOMAIN Compiled.errors :
               Compiled.errors[i] = <<"Can't return a value from an initializer.">>]_vars
  /\ [][(line' = line + 1 /\ Compiled.ok) =>
          \A f \in InitializersOf(Compiled.function) : ReturnsSlotZero(f)]_vars
  /\ [][(At_(OpCode.Return) /\ InInitializer) =>
          /\ status' = "running"
          /\ Len(frames') = Len(frames) - 1
          /\ Len(stack') = top_frame(VM).slot_offset + 1
          /\ Last(stack') = At(stack, top_frame(VM).slot_offset)]_vars

\* P(true) has returned through the bare `return;` of init, so that p.x was
\* printed as true; `class Q { init() { return 1; } }` and `return;` have been
\* rejected.
C13_BareReturnTakenAndOthersRejected ==
  /\ session = Session_initializers
  /\ line = 4
  /\ status = "CompileError"
  /\ Len(out) = 4 /\ out[1] = <<"true">> /\ out[3] = <<"true">>
  /\ err = << <<"Can't return a value from an initializer.">>,
              <<"Can't return from top-level code.">> >>

\* The braces open after each of the tokens i .. j, base of them being open
\* before token i.
RECURSIVE BraceDepths(_, _, _, _)
BraceDepths(tokens, i, j, base) ==
  IF i > j THEN <<>>
  ELSE IF i = j
    THEN << base + (IF tokens[i].type = "LeftBrace" THEN 1
                    ELSE IF tokens[i].type = "RightBrace" THEN -1 ELSE 0) >>
    ELSE LET left == BraceDepths(tokens, i, (i + j) \div 2, base)
         IN left \o BraceDepths(tokens, (i + j) \div 2 + 1, j, Last(left))

\* Token d is the name of a parameter of a function declaration: the
\* parenthesis open at it is the one after `fun name`.
IsParameter(tokens, d) ==
  /\ tokens[d].type = "Identifier"
  /\ d > 3
  /\ tokens[d - 1].type \in {"LeftParen", "Comma"}
  /\ \E p \in 3 .. d - 1 :
       /\ tokens[p].type = "LeftParen"
       /\ tokens[p - 2].type = "Fun"
       /\ \A k \in p + 1 .. d : tokens[k].type \notin {"LeftParen", "RightParen"}

\* The tokens of a source that declare a variable: the names after `var` and
\* `fun`, and the parameters.
Declarations(tokens) ==
  {d \in 2 .. Len(tokens) :
     /\ tokens[d].type = "Identifier"
     /\ tokens[d - 1].type \in {"Var", "Fun"} \/ IsParameter(tokens, d)}

\* The variables that the function declared at token f (`fun`) has to capture,
\* by the tokens that declare them: the locals declared before its parameter
\* list, in a scope that is still open at f, and named in its parameter list
\* or body, a function nested in it included.  A name is a local when it is a
\* parameter or is declared inside braces; the scope of a parameter ends with
\* the body of its function and that of another local with its block.
CapturedBy(tokens, f) ==
  LET depth == BraceDepths(tokens, 1, Len(tokens), 0)
      open == CHOOSE b \in f .. Len(tokens) :
                /\ tokens[b].type = "LeftBrace"
                /\ \A k \in f .. b - 1 : tokens[k].type # "LeftBrace"
      close == CHOOSE e \in open .. Len(tokens) :
                 /\ depth[e] = depth[open] - 1
                 /\ \A k \in open .. e - 1 : depth[k] >= depth[open]
      level(d) == IF IsParameter(tokens, d) THEN depth[d] + 1 ELSE depth[d]
  IN {d \in Declarations(tokens) :
        /\ d <= f + 1
        /\ level(d) > 0
        /\ \A k \in d .. f : depth[k] >= level(d) \/ tokens[k].type # "RightBrace"
        /\ \E i \in f + 2 .. close :
             /\ tokens[i].type = "Identifier"
             /\ tokens[i].lexeme = tokens[d].lexeme
             /\ tokens[i - 1].type # "Dot"}

\* A source without classes that declares each of its names once, in which
\* some function has to capture more than U8_COUNT variables.
NeedsTooManyUpvalues(tokens) ==
  /\ \A i \in DOMAIN tokens : tokens[i].type # "Class"
  /\ \A d, e \in Declarations(tokens) : tokens[d].lexeme = tokens[e].lexeme => d = e
  /\ \E f \in DOMAIN tokens :
       /\ tokens[f].type = "Fun"
       /\ Cardinality(CapturedBy(tokens, f)) > U8_COUNT

\* C14: a source in which some function needs a 257th upvalue, for a variable
\* it names itself or for one that a function nested in it names, does not
\* compile: interpret returns CompileError.
C14_TooManyUpvaluesRejected ==
  [][(line' = line + 1 /\ NeedsTooManyUpvalues(session[line + 1])) =>
       /\ ~Compiled.ok
       /\ status' = "CompileError"]_vars

\* C15: no allocation is reachable from itself through strong references
\* (closure -> upvalue -> closed value, instance -> field value, class ->
\* method closure, bound method -> receiver and method).
C15_StrongReferencesAcyclic ==
  \A r \in DOMAIN heap : r \notin ReachableFrom(heap, ObjectRefs(heap[r]))

\* The CALL at ip finds a class in the callee slot.
CallsClass ==
  /\ At_(OpCode.Call)
  /\ Len(stack) > Operand(0)
  /\ is_kind(VM, peek(VM, Operand(0)), "Class")

\* The class that the CALL at ip calls, and the slot it is in.
CalledClass == heap[peek(VM, Operand(0)).ref]

CalleeSlot == Len(stack) - 1 - Operand(0)

\* After the step the callee slot holds an instance allocated by the step, of
\* the class called and without fields, and the rest of the stack is as before.
FreshInstanceInCalleeSlot ==
  /\ heap' = Append(heap, [k |-> "Instance", class |-> peek(VM, Operand(0)).ref,
                           fields |-> EmptyMap])
  /\ stack' = SetAt(stack, CalleeSlot, Obj(Len(heap) + 1))

\* C16: CALL on a class puts a new instance without fields in the callee slot.
\* With an init method whose arity is argc, that closure is entered with the
\* instance in slot 0 of its frame, and its RETURN leaves that instance as the
\* value of the call; with an init method of another arity, and without init
\* when argc is not 0, the run ends with RuntimeError; without init and
\* without arguments the run goes on after the CALL.
C16_CallOnClass ==
  /\ [][(CallsClass /\ "init" \in DOMAIN CalledClass.methods
           /\ heap[CalledClass.methods["init"].ref].function.arity = Operand(0)
           /\ Len(frames) < FRAMES_MAX) =>
          /\ status' = "running"
          /\ FreshInstanceInCalleeSlot
          /\ Len(frames') = Len(frames) + 1
          /\ Last(frames') = [closure |-> CalledClass.methods["init"].ref, ip |-> 0,
                              slot_offset |-> CalleeSlot]
          /\ At(stack', Last(frames').slot_offset) = Obj(Len(heap'))]_vars
  /\ [][(CallsClass /\ "init" \in DOMAIN CalledClass.methods
           /\ heap[CalledClass.methods["init"].ref].function.arity # Operand(0)) =>
          /\ status' = "RuntimeError"
          /\ frames' = <<>>
          /\ err' = Append(err, <<"Expected ",
                                  heap[CalledClass.methods["init"].ref].function.arity,
                                  " arguments but got ", Operand(0), ".">>)]_vars
  /\ [][(CallsClass /\ "init" \notin DOMAIN CalledClass.methods /\ Operand(0) # 0) =>
          /\ status' = "RuntimeError"
          /\ frames' = <<>>
          /\ err' = Append(err, <<"Expected 0 arguments but got ", Operand(0), ".">>)]_vars
  /\ [][(CallsClass /\ "init" \notin DOMAIN CalledClass.methods /\ Operand(0) = 0) =>
          /\ status' = "running"
          /\ FreshInstanceInCalleeSlot
          /\ frames' = [frames EXCEPT ![Len(frames)].ip = @ + 2]]_vars
  /\ [][(At_(OpCode.Return) /\ InInitializer) =>
          /\ Len(stack') = top_frame(VM).slot_offset + 1
          /\ Last(stack') = At(stack, top_frame(VM).slot_offset)
          /\ Len(frames') = Len(frames) - 1]_vars

\* B(7) has run the inherited init(n) on a new instance, which is b; A's
\* init has refused B(), and D, which has no init, has refused D(1).
C16_InstancesMadeAndRefused ==
  /\ session = Session_classes
  /\ line = 7
  /\ status = "RuntimeError"
  /\ Last(err) = <<"Expected 0 arguments but got ", 1, ".">>
  /\ \E i \in DOMAIN err : err[i] = <<"Expected ", 1, " arguments but got ", 0, ".">>
  /\ "b" \in DOMAIN globals
  /\ is_kind(VM, globals["b"], "Instance")
  /\ "n" \in DOMAIN heap[globals["b"].ref].fields

\* The CALL at ip finds a closure in the callee slot.
CallsClosure ==
  /\ At_(OpCode.Call)
  /\ Len(stack) > Operand(0)
  /\ is_kind(VM, peek(VM, Operand(0)), "Closure")

\* C17: a CALL of a closure with a number of arguments that is not its arity
\* ends the run with RuntimeError, no frame left; with that number, below the
\* frame limit, it pushes one frame for the closure, with ip = 0 and
\* slot_offset = stack.len() - argc - 1, the caller behind it past its CALL,
\* and leaves the stack as it was.
C17_CallOnClosure ==
  /\ [][(CallsClosure
           /\ heap[peek(VM, Operand(0)).ref].function.arity # Operand(0)) =>
          /\ status' = "RuntimeError"
          /\ frames' = <<>>
          /\ err' = Append(err, <<"Expected ",
                                  heap[peek(VM, Operand(0)).ref].function.arity,
                                  " arguments but got ", Operand(0), ".">>)]_vars
  /\ [][(CallsClosure
           /\ heap[peek(VM, Operand(0)).ref].function.arity = Operand(0)
           /\ Len(frames) < FRAMES_MAX) =>
          /\ status' = "running"
          /\ frames' = Append([frames EXCEPT ![Len(frames)].ip = @ + 2],
                              [closure |-> peek(VM, Operand(0)).ref, ip |-> 0,
                               slot_offset |-> Len(stack) - Operand(0) - 1])
          /\ stack' = stack
          /\ UNCHANGED <<heap, globals, open_upvalues, out, err>>]_vars

\* g has called itself with one argument until n was 62, and g() was refused.
C17_CalledAndRefused ==
  /\ session = Session_recursion
  /\ line = 4
  /\ status = "RuntimeError"
  /\ frames = <<>>
  /\ Last(err) = <<"Expected ", 1, " arguments but got ", 0, ".">>

\* The upvalue cells of the closures that the program can still get at.
ReachableCells ==
  UNION {{heap[r].upvalues[i] : i \in DOMAIN heap[r].upvalues} :
           r \in {r \in ReachableFrom(heap, RootRefs(VM)) : heap[r].k = "Closure"}}

\* C18: every open upvalue of a reachable closure is registered in
\* open_upvalues under its location, and its location is a slot of the stack.
C18_OpenUpvaluesRegistered ==
  \A u \in ReachableCells :
    heap[u].closed = NoValue =>
      /\ heap[u].location \in DOMAIN open_upvalues
      /\ open_upvalues[heap[u].location] = u
      /\ heap[u].location < Len(stack)

\* No interpret call is running: the VM is new or the last call has returned.
BetweenCalls == status \in {"Ready", "Ok", "CompileError", "RuntimeError"}

\* C19: whenever no interpret call is running, whatever the last one returned,
\* the value stack, the frame stack and the open-upvalue map are empty.
C19_EmptyBetweenCalls ==
  BetweenCalls => /\ stack = <<>>
                  /\ frames = <<>>
                  /\ DOMAIN open_upvalues = {}

\* The tenth line has returned Ok, after lines that ended with a runtime
\* error, one of them inside a call with a captured local on the stack.
C19_OkAfterErrors ==
  /\ session = Session_runtime_errors
  /\ line = 10
  /\ status = "Ok"
  /\ Len(err) >= 2
  /\ \E r \in DOMAIN heap : heap[r].k = "Upvalue"
  /\ stack = <<>> /\ frames = <<>>

\* The frame below the top has stopped after a call: its ip follows a CALL, an
\* INVOKE or a SUPER_INVOKE of its chunk.
CallerAfterCall(caller) ==
  LET chunk == heap[caller.closure].function.chunk IN
  \/ /\ caller.ip - 2 \in InstructionOffsets(chunk)
     /\ At(chunk.code, caller.ip - 2) = OpCode.Call
  \/ /\ caller.ip - 3 \in InstructionOffsets(chunk)
     /\ At(chunk.code, caller.ip - 3) \in {OpCode.Invoke, OpCode.SuperInvoke}

\* C20: a RETURN with a frame below truncates the stack to the slot_offset of
\* the frame that returns and pushes the value returned, pops that frame and
\* leaves the caller at the instruction after its call; a CALL of a closure
\* that pushes a frame puts slot_offset at the stack length less argc + 1, so
\* that after the RETURN the stack is as long as before the CALL less argc,
\* and a frame keeps its slot_offset while it is active.  A RETURN of the last
\* frame finds the script closure under the value returned, empties the
\* stack, and run returns Ok.
C20_ReturnResumesCaller ==
  /\ [][(At_(OpCode.Return) /\ Len(frames) >= 2) =>
          /\ status' = "running"
          /\ stack' = Append(SubSeq(stack, 1, top_frame(VM).slot_offset), Last(stack))
          /\ frames' = Front(frames)
          /\ CallerAfterCall(Last(frames'))]_vars
  /\ [][(CallsClosure /\ Len(frames') = Len(frames) + 1) =>
          /\ Last(frames').slot_offset + 1 = Len(stack) - Operand(0)
          /\ Len(stack') = Len(stack)]_vars
  /\ [][\A i \in DOMAIN frames \cap DOMAIN frames' :
          /\ frames'[i].slot_offset = frames[i].slot_offset
          /\ frames'[i].closure = frames[i].closure
          /\ i < Len(frames) => frames'[i].ip = frames[i].ip]_vars
  /\ [][(At_(OpCode.Return) /\ Len(frames) = 1) =>
          /\ Len(stack) = 2
          /\ stack[1] = Obj(top_frame(VM).closure)
          /\ stack' = <<>>
          /\ frames' = <<>>
          /\ status' = "Ok"]_vars

\* add(4, 5), called among the arguments of add(3, ...), and the other calls
\* of add have returned to the script, which has printed 15 and returned.
C20_CallsReturned ==
  /\ session = Session_counter
  /\ line = 5
  /\ status = "Ok"
  /\ Last(out) = <<"number", 15>>
  /\ stack = <<>> /\ frames = <<>>

\* C8: the value stack never holds more than STACK_MAX = 64 x 256 values.
C8_StackWithinStackMax == Len(stack) <= STACK_MAX

\* The boundary that the RETURN or CLOSE_UPVALUE at ip gives to close_upvalues:
\* the slot_offset of the frame that returns, taken before its slots go, and
\* the index of the top of the stack, taken before the pop.
CloseBoundary ==
  IF Instruction = OpCode.Return THEN top_frame(VM).slot_offset ELSE Len(stack) - 1

\* The step has closed the open upvalues from slot b on, each with the value
\* its slot held before the step, and has left those below b as they were.
ClosedFrom(b) ==
  /\ \A l \in DOMAIN open_upvalues' : l < b
  /\ \A l \in DOMAIN open_upvalues :
       IF l >= b
         THEN /\ l < Len(stack)
              /\ heap'[open_upvalues[l]] =
                   [heap[open_upvalues[l]] EXCEPT !.closed = At(stack, l)]
              /\ heap'[open_upvalues[l]].closed # NoValue
         ELSE /\ l \in DOMAIN open_upvalues'
              /\ open_upvalues'[l] = open_upvalues[l]
              /\ heap'[open_upvalues[l]] = heap[open_upvalues[l]]

\* C21: RETURN closes the open upvalues from the slot_offset of its frame on,
\* and CLOSE_UPVALUE those from the top of the stack on: none with such a
\* location stays in open_upvalues, each one removed holds the value that was
\* in its slot, and the entries below the boundary are unchanged.
C21_CloseUpvaluesFromBoundary ==
  [][(At_(OpCode.Return) \/ At_(OpCode.CloseUpvalue)) =>
       /\ status' \in {"running", "Ok"}
       /\ ClosedFrom(CloseBoundary)]_vars

\* The block of q has ended while fp holds the open upvalue of p: q is closed
\* with 2 and the upvalue of p is still in open_upvalues, at its slot.
C21_ClosedAboveOpenBelow ==
  /\ session = Session_counter
  /\ line = 6
  /\ status = "running"
  /\ Len(frames) = 1
  /\ DOMAIN open_upvalues = {1}
  /\ stack[2] = Number(1)
  /\ \E r \in DOMAIN heap :
       /\ heap[r].k = "Upvalue"
       /\ heap[r].location = 4
       /\ heap[r].closed = Number(2)

\* The slots that the CLOSURE at ip captures as locals of the running frame.
CapturedSlots ==
  LET fn == At(frame_chunk(VM).constants, Operand(0)).f IN
  {top_frame(VM).slot_offset + Operand(2 + 2 * i) :
     i \in {i \in 0 .. fn.upvalue_count - 1 : Operand(1 + 2 * i) # 0}}

\* Every entry of open_upvalues is an open upvalue whose location is its key,
\* a slot of the stack, and no upvalue is entered under two keys.
OpenUpvaluesWellFormed ==
  /\ \A l \in DOMAIN open_upvalues :
       /\ heap[open_upvalues[l]].k = "Upvalue"
       /\ IsOpen(heap, open_upvalues[l])
       /\ heap[open_upvalues[l]].location = l
       /\ l < Len(stack)
  /\ \A l, m \in DOMAIN open_upvalues : open_upvalues[l] = open_upvalues[m] => l = m

\* C22: open_upvalues has one open upvalue for a stack index, with that index
\* as its location, below the length of the stack; a capture of a slot that
\* has an entry keeps the entry and allocates nothing, and a capture of a
\* slot without one enters a new open upvalue for it.
C22_OneOpenUpvaluePerSlot ==
  /\ []OpenUpvaluesWellFormed
  /\ [][(At_(OpCode.Closure) /\ status' = "running") =>
          /\ DOMAIN open_upvalues' = DOMAIN open_upvalues \cup CapturedSlots
          /\ \A l \in DOMAIN open_upvalues : open_upvalues'[l] = open_upvalues[l]
          /\ \A l \in CapturedSlots \ DOMAIN open_upvalues :
               /\ open_upvalues'[l] \in Len(heap) + 1 .. Len(heap')
               /\ IsOpen(heap', open_upvalues'[l])
               /\ heap'[open_upvalues'[l]].location = l
          /\ Len(heap') = Len(heap) + 1
                            + Cardinality(CapturedSlots \ DOMAIN open_upvalues)]_vars

\* In mk, inc has captured x after get had: the two closures hold the one
\* open upvalue that open_upvalues has for the slot of x.
C22_SecondCaptureFoundTheFirst ==
  /\ status = "running"
  /\ \E l \in DOMAIN open_upvalues :
       \E c1, c2 \in DOMAIN heap :
         /\ c1 # c2 /\ heap[c1].k = "Closure" /\ heap[c2].k = "Closure"
         /\ \E i \in DOMAIN heap[c1].upvalues : heap[c1].upvalues[i] = open_upvalues[l]
         /\ \E j \in DOMAIN heap[c2].upvalues : heap[c2].upvalues[j] = open_upvalues[l]
         /\ Cardinality({r \in DOMAIN heap : heap[r].k = "Upvalue"}) = 1

\* The upvalues of the heap.
Upvalues == {r \in DOMAIN heap : heap[r].k = "Upvalue"}

\* SET_UPVALUE at ip writes through the upvalue r.
WritesThrough(r) ==
  /\ At_(OpCode.SetUpvalue)
  /\ Operand(0) < Len(frame_closure(VM).upvalues)
  /\ Cell = r

\* C23: an upvalue keeps its location; a closed upvalue stays closed; a
\* SET_UPVALUE through a closed upvalue leaves the stack as it was and puts
\* the value in the upvalue; no other instruction, a write to the slot the
\* upvalue came from included, changes the value of a closed upvalue.
C23_ClosedOnceAndApartFromTheStack ==
  [][\A r \in Upvalues :
       /\ r \in DOMAIN heap'
       /\ heap'[r].k = "Upvalue"
       /\ heap'[r].location = heap[r].location
       /\ ~IsOpen(heap, r) =>
            /\ ~IsOpen(heap', r)
            /\ IF WritesThrough(r)
                 THEN /\ stack' = stack
                      /\ heap'[r].closed = peek(VM, 0)
                 ELSE heap'[r].closed = heap[r].closed]_vars

\* The upvalue of q was closed at slot 4; r took the slot and was assigned 10
\* while the second call of fq counted the closed upvalue up to 4.
C23_SlotReusedAfterClose ==
  /\ session = Session_counter /\ line = 6 /\ status = "running" /\ Len(frames) = 1
  /\ Len(stack) > 4 /\ At(stack, 4) = Number(10)
  /\ \E r \in Upvalues : heap[r].location = 4 /\ heap[r].closed = Number(4)

\* INVOKE n argc at ip taken as GET_PROPERTY n on the receiver, with the
\* arguments set aside, and then CALL argc with the arguments back above the
\* property: both read n at ip + 1 and argc at ip + 2.
GetPropertyThenCall(now) ==
  LET f == read_byte(VM)
      arg_count == Operand(1)
      receiver_top == Len(stack) - arg_count
      g == op_get_property([f EXCEPT !.stack = SubSeq(@, 1, receiver_top)])
  IN IF g.status # "running" THEN g
     ELSE op_call([g EXCEPT !.stack = @ \o SubSeq(stack, receiver_top + 1, Len(stack))],
                  now)

\* The name of INVOKE at ip is a method of the class of the receiver and not
\* one of its fields.
InvokesMethod ==
  LET receiver == peek(VM, Operand(1))
      name == At(frame_chunk(VM).constants, Operand(0)).s
  IN /\ is_instance(VM, receiver)
     /\ name \notin DOMAIN heap[receiver.ref].fields
     /\ upgrade(VM, heap[receiver.ref].class)
     /\ name \in DOMAIN heap[heap[receiver.ref].class].methods

BoundMethods(objects) == {r \in DOMAIN objects : objects[r].k = "BoundMethod"}

\* C24: INVOKE n argc leaves the stack, the frames and the outcome that
\* GET_PROPERTY n on the receiver followed by CALL argc leaves, and makes no
\* BoundMethod where the other way makes one for a method.
C24_InvokeIsGetPropertyThenCall ==
  [][(At_(OpCode.Invoke) /\ Len(stack) > Operand(1)) =>
       /\ \E now \in Times :
            /\ stack' = GetPropertyThenCall(now).stack
            /\ frames' = GetPropertyThenCall(now).frames
            /\ status' = GetPropertyThenCall(now).status
            /\ out' = GetPropertyThenCall(now).out
            /\ InvokesMethod =>
                 BoundMethods(GetPropertyThenCall(now).heap) # BoundMethods(heap)
       /\ BoundMethods(heap') = BoundMethods(heap)]_vars

\* b.greet() has entered greet of B on the instance, and there is no bound
\* method yet.
C24_MethodInvokedUnbound ==
  /\ session = Session_classes /\ line = 3 /\ status = "running"
  /\ Len(frames) = 2
  /\ frame_closure(VM).function.name = "greet"
  /\ top_frame(VM).ip = 0
  /\ is_instance(VM, At(stack, top_frame(VM).slot_offset))
  /\ BoundMethods(heap) = {}

\* GET_PROPERTY or INVOKE is at ip with an instance as its receiver.
AccessesProperty ==
  /\ At_(OpCode.GetProperty) \/ At_(OpCode.Invoke)
  /\ Len(stack) > (IF Instruction = OpCode.Invoke THEN Operand(1) ELSE 0)
  /\ is_instance(VM, peek(VM, IF Instruction = OpCode.Invoke THEN Operand(1) ELSE 0))

\* The receiver of the access, its name operand, and what the name is for
\* the receiver.
Receiver == peek(VM, IF Instruction = OpCode.Invoke THEN Operand(1) ELSE 0)

PropertyName == At(frame_chunk(VM).constants, Operand(0)).s

IsField == PropertyName \in DOMAIN heap[Receiver.ref].fields

IsMethod ==
  /\ upgrade(VM, heap[Receiver.ref].class)
  /\ PropertyName \in DOMAIN heap[heap[Receiver.ref].class].methods

FieldValue == heap[Receiver.ref].fields[PropertyName]

Method == heap[heap[Receiver.ref].class].methods[PropertyName]

\* INVOKE at ip taken as CALL argc with value in the callee slot.
CallOf(value, now) ==
  op_call([read_byte(read_byte(VM)) EXCEPT
             !.stack = SetAt(@, Len(stack) - 1 - Operand(1), value)], now)

\* The access at ip, for the three cases of its name: a field, a method that
\* no field hides, and neither.
FieldBeforeMethod ==
       /\ (IsField /\ Instruction = OpCode.GetProperty) =>
            /\ status' = "running"
            /\ stack' = Append(Front(stack), FieldValue)
            /\ UNCHANGED <<heap, err>>
       /\ (IsField /\ Instruction = OpCode.Invoke) =>
            /\ \E now \in Times :
                 /\ stack' = CallOf(FieldValue, now).stack
                 /\ frames' = CallOf(FieldValue, now).frames
                 /\ status' = CallOf(FieldValue, now).status
                 /\ err' = CallOf(FieldValue, now).err
            /\ (FieldValue.t # "Native" /\ ~(FieldValue.t = "Obj" /\
                  heap[FieldValue.ref].k \in {"Closure", "Class", "BoundMethod"})) =>
                 /\ status' = "RuntimeError"
                 /\ err' = Append(err, <<"Can only call functions and classes.">>)
       /\ (~IsField /\ IsMethod /\ Instruction = OpCode.GetProperty) =>
            /\ status' = "running"
            /\ Front(stack') = Front(stack)
            /\ is_kind(VM', Last(stack'), "BoundMethod")
            /\ heap'[Last(stack').ref].method = Method.ref
            /\ heap'[Last(stack').ref].receiver = Receiver
       /\ (~IsField /\ IsMethod /\ Instruction = OpCode.Invoke
             /\ status' = "running") =>
            /\ Len(frames') = Len(frames) + 1
            /\ Last(frames').closure = Method.ref
            /\ stack' = stack
       /\ (~IsField /\ ~IsMethod) =>
            /\ status' = "RuntimeError"
            /\ err' = Append(err, <<"Undefined property '", PropertyName, "'.">>)

\* C25: GET_PROPERTY n gives the value of the field n of the instance and
\* INVOKE n argc calls it (RuntimeError when it cannot be called), whether
\* the class has a method n or not; the method of the class is bound or
\* called when the instance has no field n; a name that is neither ends the
\* run with RuntimeError "Undefined property 'n'.".
C25_FieldBeforeMethod == [][AccessesProperty => FieldBeforeMethod]_vars

Classes == {r \in DOMAIN heap : heap[r].k = "Class"}

\* INHERIT is at ip with the superclass value below the subclass.
Inherits == At_(OpCode.Inherit) /\ Len(stack) >= 2

\* C26: INHERIT with a superclass value that is not a class ends the run with
\* RuntimeError "Superclass must be a class."; with a class, the subclass has
\* every method of the superclass afterwards and the superclass is as it was;
\* the method table of a class changes only by INHERIT with the class as the
\* subclass or by METHOD on the class, so a METHOD on a subclass leaves the
\* table of the superclass alone.
C26_InheritCopiesDown ==
  /\ [][(Inherits /\ ~is_kind(VM, peek(VM, 1), "Class")) =>
          /\ status' = "RuntimeError"
          /\ err' = Append(err, <<"Superclass must be a class.">>)]_vars
  /\ [][(Inherits /\ is_kind(VM, peek(VM, 1), "Class")) =>
          /\ status' = "running"
          /\ peek(VM, 0).ref # peek(VM, 1).ref
          /\ \A name \in DOMAIN heap[peek(VM, 1).ref].methods :
               /\ name \in DOMAIN heap'[peek(VM, 0).ref].methods
               /\ heap'[peek(VM, 0).ref].methods[name]
                    = heap[peek(VM, 1).ref].methods[name]
          /\ heap'[peek(VM, 1).ref] = heap[peek(VM, 1).ref]]_vars
  /\ [][\A r \in Classes :
          /\ r \in DOMAIN heap' /\ heap'[r].k = "Class"
          /\ heap'[r].methods # heap[r].methods =>
               \/ At_(OpCode.Inherit) /\ peek(VM, 0) = Obj(r)
               \/ At_(OpCode.Method) /\ Len(stack) >= 2 /\ peek(VM, 1) = Obj(r)]_vars

\* B took m from A and then defined its own; A has the m it had, and C has
\* test and get from B and an m of its own.
C26_OverriddenBelowOnly ==
  /\ session = Session_super /\ line = 1 /\ status = "Ok"
  /\ LET A == heap[globals["A"].ref].methods
         B == heap[globals["B"].ref].methods
         C == heap[globals["C"].ref].methods
     IN /\ DOMAIN A = {"m"}
        /\ DOMAIN B = {"m", "test", "get"}
        /\ DOMAIN C = {"m", "test", "get"}
        /\ B["m"] # A["m"] /\ C["m"] # B["m"] /\ C["m"] # A["m"]
        /\ C["test"] = B["test"] /\ C["get"] = B["get"]
        /\ LET constants == heap[A["m"].ref].function.chunk.constants IN
             \E k \in DOMAIN constants :
               constants[k].t = "String" /\ constants[k].s = "A"

\* The upvalue indices through which a function reads `super`: super_ emits
\* the read of the variable just before GET_SUPER or SUPER_INVOKE.
SuperUpvalues(fn) ==
  LET code == fn.chunk.code IN
  {At(code, o + 1) :
     o \in {o \in InstructionOffsets(fn.chunk) :
              /\ o + 2 < Len(code)
              /\ At(code, o) = OpCode.GetUpvalue
              /\ At(code, o + 2) \in {OpCode.GetSuper, OpCode.SuperInvoke}}}

\* What a read through the upvalue u gives.
CellValue(objects, values, u) ==
  IF objects[u].closed # NoValue THEN objects[u].closed
  ELSE At(values, objects[u].location)

AtSuper == At_(OpCode.GetSuper) \/ At_(OpCode.SuperInvoke)

\* The class GET_SUPER or SUPER_INVOKE at ip looks the name up in, and the
\* receiver the method is for.
Superclass == peek(VM, 0)

SuperReceiver ==
  peek(VM, IF Instruction = OpCode.SuperInvoke THEN Operand(1) + 1 ELSE 1)

\* C27: the class that GET_SUPER and SUPER_INVOKE look the name up in is the
\* value of the `super` upvalue of the running method; that upvalue holds
\* the same class for as long as the closure exists, the class that was the
\* local under the class being declared when the method's closure was made,
\* where INHERIT had found it as the superclass; the method found is the one
\* in the table of that class, whatever the class of the receiver.
C27_SuperIsTheDeclaredSuperclass ==
  /\ [][AtSuper =>
          /\ top_frame(VM).ip >= 2
          /\ At(frame_chunk(VM).code, top_frame(VM).ip - 2) = OpCode.GetUpvalue
          /\ Superclass = CellValue(heap, stack,
                            At(frame_closure(VM).upvalues,
                               At(frame_chunk(VM).code, top_frame(VM).ip - 1)))
          /\ is_kind(VM, Superclass, "Class")
          /\ IF PropertyName \in DOMAIN heap[Superclass.ref].methods
               THEN status' = "running" =>
                      IF Instruction = OpCode.SuperInvoke
                        THEN /\ Last(frames').closure
                                  = heap[Superclass.ref].methods[PropertyName].ref
                             /\ stack' = Front(stack)
                             /\ At(stack', Last(frames').slot_offset) = SuperReceiver
                        ELSE /\ stack' = Append(SubSeq(stack, 1, Len(stack) - 2),
                                                Last(stack'))
                             /\ is_kind(VM', Last(stack'), "BoundMethod")
                             /\ heap'[Last(stack').ref].method
                                  = heap[Superclass.ref].methods[PropertyName].ref
                             /\ heap'[Last(stack').ref].receiver = SuperReceiver
               ELSE /\ status' = "RuntimeError"
                    /\ err' = Append(err, <<"Undefined property '", PropertyName,
                                            "'.">>)]_vars
  /\ [][\A c \in {r \in DOMAIN heap : heap[r].k = "Closure"} :
          \A i \in SuperUpvalues(heap[c].function) :
            /\ i < Len(heap[c].upvalues)
            /\ is_kind(VM, CellValue(heap, stack, At(heap[c].upvalues, i)), "Class")
            /\ CellValue(heap', stack', At(heap[c].upvalues, i))
                 = CellValue(heap, stack, At(heap[c].upvalues, i))]_vars
  /\ [][(At_(OpCode.Closure) /\ status' = "running") =>
          \A i \in SuperUpvalues(At(frame_chunk(VM).constants, Operand(0)).f) :
            Operand(1 + 2 * i) # 0 =>
              /\ top_frame(VM).slot_offset + Operand(2 + 2 * i) = Len(stack) - 2
              /\ is_kind(VM, peek(VM, 1), "Class")
              /\ is_kind(VM, peek(VM, 0), "Class")
              /\ DOMAIN heap[peek(VM, 1).ref].methods
                   \subseteq DOMAIN heap[peek(VM, 0).ref].methods]_vars
  /\ [][(Inherits /\ is_kind(VM, peek(VM, 1), "Class")) => stack' = Front(stack)]_vars

\* c.test() runs test of B on an instance of C, and its super.m() has entered
\* the m of A.
C27_SuperFromInheritedMethod ==
  /\ session = Session_super /\ line = 2 /\ status = "running"
  /\ Len(frames) = 3
  /\ frames[2].closure = heap[globals["B"].ref].methods["test"].ref
  /\ frames[3].closure = heap[globals["A"].ref].methods["m"].ref
  /\ frames[3].ip = 0
  /\ heap[At(stack, frames[3].slot_offset).ref].class = globals["C"].ref
  /\ heap[At(stack, frames[2].slot_offset).ref].class = globals["C"].ref

\* The value CALL or INVOKE at ip is about to call: the callee slot of CALL,
\* the field of the receiver of INVOKE.
Callee ==
  IF Instruction = OpCode.Call THEN peek(VM, Operand(0)) ELSE FieldValue

ArgCount == IF Instruction = OpCode.Call THEN Operand(0) ELSE Operand(1)

\* CALL or INVOKE at ip calls a bound method.
CallsBoundMethod ==
  /\ \/ At_(OpCode.Call) /\ Len(stack) > Operand(0)
     \/ AccessesProperty /\ Instruction = OpCode.Invoke /\ IsField
  /\ is_kind(VM, Callee, "BoundMethod")

\* C28: the BoundMethod that GET_PROPERTY or GET_SUPER makes has the receiver
\* of the access; a BoundMethod stays as it was made; a call of it, by CALL
\* or by INVOKE of a field that holds it, in whatever frame, makes a frame
\* for its method with its receiver in slot 0.
C28_BoundMethodKeepsReceiver ==
  /\ [][((At_(OpCode.GetProperty) \/ At_(OpCode.GetSuper))
           /\ BoundMethods(heap') # BoundMethods(heap)) =>
          /\ BoundMethods(heap') = BoundMethods(heap) \cup {Last(stack').ref}
          /\ heap'[Last(stack').ref].receiver
               = (IF Instruction = OpCode.GetSuper THEN peek(VM, 1) ELSE peek(VM, 0))
          /\ is_instance(VM, heap'[Last(stack').ref].receiver)]_vars
  /\ [][\A r \in BoundMethods(heap) : r \in DOMAIN heap' /\ heap'[r] = heap[r]]_vars
  /\ [][(CallsBoundMethod /\ status' = "running") =>
          /\ Len(frames') = Len(frames) + 1
          /\ Last(frames').closure = heap[Callee.ref].method
          /\ Last(frames').ip = 0
          /\ Last(frames').slot_offset = Len(stack) - ArgCount - 1
          /\ stack' = SetAt(stack, Len(stack) - ArgCount - 1, heap[Callee.ref].receiver)]_vars

\* The method name bound to p was put in a field of q, read there and handed
\* to via, whose call of it has entered name with p in slot 0.
C28_BoundToPCalledInVia ==
  /\ session = Session_super /\ line = 6 /\ status = "running"
  /\ Len(frames) = 3
  /\ frame_closure(VM).function.name = "name"
  /\ heap[frames[2].closure].function.name = "via"
  /\ At(stack, top_frame(VM).slot_offset) = globals["p"]
  /\ is_kind(VM, heap[globals["q"].ref].fields["f"], "BoundMethod")
  /\ globals["p"] # globals["q"]

\* What the arm of run for the instruction at offset o adds to the number of
\* values on the stack; a call is counted with the return of the callee.
StackEffect(chunk, o) ==
  LET op == At(chunk.code, o) IN
  CASE op \in {OpCode.Constant, OpCode.Nil, OpCode.True, OpCode.False,
               OpCode.GetLocal, OpCode.GetGlobal, OpCode.GetUpvalue,
               OpCode.Closure, OpCode.Class} -> 1
    [] op \in {OpCode.Pop, OpCode.DefineGlobal, OpCode.SetProperty,
               OpCode.GetSuper, OpCode.Equal, OpCode.Greater, OpCode.Less,
               OpCode.Add, OpCode.Subtract, OpCode.Multiply, OpCode.Divide,
               OpCode.Print_, OpCode.CloseUpvalue, OpCode.Inherit,
               OpCode.Method} -> -1
    [] op = OpCode.Call -> 0 - At(chunk.code, o + 1)
    [] op = OpCode.Invoke -> 0 - At(chunk.code, o + 2)
    [] op = OpCode.SuperInvoke -> 0 - At(chunk.code, o + 2) - 1
    [] OTHER -> 0

\* The heights below are kept by offset, first offset 0: for each offset the
\* numbers of values in the frame with which the paths from offset 0 come to
\* it, none where no path has come yet.

\* A path comes to offset t with v values in the frame.
Meet(heights, t, v) ==
  IF t >= Len(heights) THEN heights
  ELSE SetAt(heights, t, At(heights, t) \cup {v})

\* The heights after the paths through the instruction at offset o, when a
\* path has come to it, are taken on to where it goes next.
Follow(chunk, o, heights) ==
  LET op == At(chunk.code, o)
      here == CHOOSE h \in At(heights, o) : \A g \in At(heights, o) : h <= g
      jump == At(chunk.code, o + 1) * (U8_MAX + 1) + At(chunk.code, o + 2)
  IN IF At(heights, o) = {} THEN heights
     ELSE CASE op = OpCode.Return -> heights
            [] op = OpCode.Jump -> Meet(heights, o + 3 + jump, here)
            [] op = OpCode.Loop -> Meet(heights, o + 3 - jump, here)
            [] op = OpCode.JumpIfFalse ->
                 Meet(Meet(heights, o + 3, here), o + 3 + jump, here)
            [] OTHER -> Meet(heights, disassemble_instruction(chunk, o),
                             here + StackEffect(chunk, o))

RECURSIVE FollowAll(_, _, _, _)

\* After the offsets before lo, those of lo .. hi.
FollowOn(chunk, lo, hi, heights) ==
  IF heights = <<>> THEN heights ELSE FollowAll(chunk, lo, hi, heights)

\* Follow for the offsets lo .. hi in turn, by halves.
FollowAll(chunk, lo, hi, heights) ==
  IF lo > hi THEN heights
  ELSE IF lo = hi THEN Follow(chunk, lo, heights)
  ELSE FollowOn(chunk, (lo + hi) \div 2 + 1, hi,
                FollowAll(chunk, lo, (lo + hi) \div 2, heights))

RECURSIVE Settle(_, _)

\* One more turn through the offsets unless the last one changed nothing: the
\* increment clause of a for loop is come to from the end of the body, which
\* stands after it.
SettleFrom(chunk, heights, next) ==
  IF next = heights THEN heights ELSE Settle(chunk, next)

Settle(chunk, heights) ==
  SettleFrom(chunk, heights, FollowAll(chunk, 0, Len(chunk.code) - 1, heights))

\* The number of values in the frame of fn when run comes to each
\* instruction of it: slot 0 and the parameters at offset 0.
StackHeights(fn) ==
  Settle(fn.chunk, [o \in 1 .. Len(fn.chunk.code) |->
                      IF o = 1 THEN {fn.arity + 1} ELSE {}])

\* GET_LOCAL and SET_LOCAL name slots below the height of the frame where
\* they stand, SET_LOCAL for a value above the slot, and no two paths come to
\* an instruction with different heights.
LocalsWithinHeights(code, heights) ==
  \A o \in 0 .. Len(code) - 1 :
    /\ Cardinality(At(heights, o)) <= 1
    /\ \A here \in At(heights, o) :
         /\ At(code, o) = OpCode.GetLocal => At(code, o + 1) < here
         /\ At(code, o) = OpCode.SetLocal => At(code, o + 1) < here - 1

\* C29: in a program that compiled, GET_LOCAL s and SET_LOCAL s find slot s
\* of the frame on the stack; the number of values in the running frame is
\* the one that the code gives for the instruction at ip, the same on every
\* path to it, so a statement leaves on the stack the locals it declares
\* and nothing else, and slot s is below that number wherever the code reads
\* or writes it.
C29_LocalSlotsAreStackSlots ==
  /\ [][(line' = line + 1 /\ Compiled.ok) =>
          \A fn \in FunctionsOf(Compiled.function) :
            LocalsWithinHeights(fn.chunk.code, StackHeights(fn))]_vars
  /\ [](Running =>
          At(StackHeights(frame_closure(VM).function), top_frame(VM).ip)
            = {Len(stack) - top_frame(VM).slot_offset})
  /\ []((At_(OpCode.GetLocal) \/ At_(OpCode.SetLocal)) =>
          top_frame(VM).slot_offset + Operand(0) < Len(stack))

\* In the block, fq has been called the second time while p, fp, fq and r
\* are on the stack: r is read and written as slot 4, where q was before.
C29_LocalsOfTheBlockInPlace ==
  /\ session = Session_counter /\ line = 6 /\ status = "running"
  /\ Len(frames) = 1
  /\ Instruction = OpCode.GetLocal /\ Operand(0) = 4
  /\ At(stack, 1) = Number(1) /\ At(stack, 4) = Number(9)
  /\ Len(stack) = 5

\* The step is an end_scope: nothing else lowers scope_depth.
ScopeEnds ==
  /\ compiler.fcs # <<>>
  /\ current_fc(compiler').scope_depth = current_fc(compiler).scope_depth - 1

\* The locals of the scope that ends.
ClosingLocals ==
  {i \in DOMAIN current_fc(compiler).locals :
     /\ current_fc(compiler).locals[i].depth # NoDepth
     /\ current_fc(compiler).locals[i].depth > current_fc(compiler).scope_depth - 1}

\* C30: end_scope takes from the locals those of the scope that ends, which
\* are the last ones, and no other; it emits one instruction for each, for
\* the last local first: CLOSE_UPVALUE when the local was captured, POP when
\* it was not; it changes nothing else of the compiler.
C30_EndScopeRemovesItsLocals ==
  [][ScopeEnds =>
       LET locals == current_fc(compiler).locals
           n == Cardinality(ClosingLocals)
       IN /\ ClosingLocals = Len(locals) - n + 1 .. Len(locals)
          /\ current_fc(compiler').locals = SubSeq(locals, 1, Len(locals) - n)
          /\ current_chunk(compiler').code
               = current_chunk(compiler).code
                   \o [k \in 1 .. n |->
                         IF locals[Len(locals) + 1 - k].is_captured
                           THEN OpCode.CloseUpvalue ELSE OpCode.Pop]
          /\ compiler' =
               [compiler EXCEPT
                  !.fcs[Len(compiler.fcs)].scope_depth = @ - 1,
                  !.fcs[Len(compiler.fcs)].locals = current_fc(compiler').locals,
                  !.fcs[Len(compiler.fcs)].function.chunk.code =
                     current_chunk(compiler').code,
                  !.fcs[Len(compiler.fcs)].function.chunk.lines =
                     current_chunk(compiler').lines]]_vars

\* { var a; fun f() { return a; } } has ended: f went with POP and then a,
\* which f had captured, with CLOSE_UPVALUE.
C30_CapturedClosedOtherPopped ==
  /\ compiler.fcs # <<>>
  /\ current_fc(compiler).scope_depth = 0
  /\ Len(current_fc(compiler).locals) = 1
  /\ ~compiler.had_error
  /\ Len(current_chunk(compiler).code) = 7
  /\ SubSeq(current_chunk(compiler).code, 1, 2) = <<OpCode.Nil, OpCode.Closure>>
  /\ SubSeq(current_chunk(compiler).code, 6, 7) = <<OpCode.Pop, OpCode.CloseUpvalue>>

\* The upvalue lists of the function compilers: as long as upvalue_count, and
\* no (index, is_local) pair twice.
UpvalueListsWellFormed ==
  \A l \in DOMAIN compiler.fcs :
    LET upvalues == compiler.fcs[l].upvalues IN
    /\ compiler.fcs[l].function.upvalue_count = Len(upvalues)
    /\ \A i, j \in DOMAIN upvalues : upvalues[i] = upvalues[j] => i = j

\* add_upvalue on the current function and any pair: a pair it has is found
\* where it is and nothing changes; another pair is appended and counted.
AddUpvalueFindsOrAppends ==
  \A index \in 0 .. MaxUses, is_local \in BOOLEAN :
    LET upvalues == current_fc(compiler).upvalues
        pair == [index |-> index, is_local |-> is_local]
        at == {i \in DOMAIN upvalues : upvalues[i] = pair}
        added == add_upvalue(compiler, index, is_local)
    IN IF at # {}
         THEN added = [compiler EXCEPT !.ret = (CHOOSE i \in at : TRUE) - 1]
         ELSE added =
                [compiler EXCEPT
                   !.fcs[Len(compiler.fcs)].upvalues = Append(upvalues, pair),
                   !.fcs[Len(compiler.fcs)].function.upvalue_count = @ + 1,
                   !.ret = Len(upvalues)]

\* The step compiles a variable: the function compilers stay, and the name is
\* parser.previous.
NamesVariable ==
  /\ compiler' # compiler
  /\ Len(compiler'.fcs) = Len(compiler.fcs)

\* The name is captured already: resolving it gives an index and changes no
\* function compiler.
Captured(c, name) ==
  /\ resolve_upvalue(c, name).ret # NoSlot
  /\ resolve_upvalue(c, name).fcs = c.fcs

\* C31: a captured variable resolved again in the same function gets the
\* upvalue index it got before: add_upvalue returns the position of a pair
\* (index, is_local) that is in the list and leaves the list and
\* upvalue_count as they are, and upvalue_count grows, by one, only when a
\* pair that was not in the list is appended.
C31_SameUpvalueIndexEachTime ==
  /\ [](UpvalueListsWellFormed /\ AddUpvalueFindsOrAppends)
  /\ [][NamesVariable =>
          LET name == compiler'.previous.lexeme
              code == current_chunk(compiler').code
          IN /\ \A l \in DOMAIN compiler.fcs :
                  LET before == compiler.fcs[l].upvalues
                      after == compiler'.fcs[l].upvalues
                  IN \/ after = before
                     \/ /\ after = Append(before, Last(after))
                        /\ \A i \in DOMAIN before : before[i] # Last(after)
             /\ At(code, Len(code) - 2) = OpCode.GetUpvalue =>
                  /\ Captured(compiler', name)
                  /\ resolve_upvalue(compiler', name).ret = Last(code)
             /\ \A n \in VariableNames :
                  Captured(compiler, n) =>
                    /\ Captured(compiler', n)
                    /\ resolve_upvalue(compiler', n).ret
                         = resolve_upvalue(compiler, n).ret]_vars

\* In g, inside f, `a` of the script's block has been named twice: both times
\* it is upvalue 0 of g, the one pair (0, false) that g has; f has captured
\* the local once.
C31_NamedTwiceCapturedOnce ==
  /\ Len(compiler.fcs) = MaxNesting
  /\ current_chunk(compiler).code
       = <<OpCode.GetUpvalue, 0, OpCode.GetUpvalue, 0>>
  /\ current_fc(compiler).upvalues = <<[index |-> 0, is_local |-> FALSE]>>
  /\ compiler.fcs[2].upvalues = <<[index |-> 1, is_local |-> TRUE]>>
  /\ compiler.fcs[1].locals[2].is_captured

\* The value on top of the stack is nil or false.
TopIsNilOrFalse ==
  \/ Last(stack).t = "Nil"
  \/ Last(stack).t = "Bool" /\ ~Last(stack).b

\* An instruction of the running chunk begins at offset o.
InstructionAt(o) == o >= 0 /\ o \in InstructionOffsets(frame_chunk(VM))

\* ip is behind a JUMP_IF_FALSE: at the POP that discards the left operand of
\* `and` before the right one, or at the JUMP over the right operand of `or`.
BehindJumpIfFalse ==
  /\ Running
  /\ InstructionAt(top_frame(VM).ip - 3)
  /\ At(frame_chunk(VM).code, top_frame(VM).ip - 3) = OpCode.JumpIfFalse

\* ip is at the POP that discards the left operand of `or` before the right
\* one: the JUMP_IF_FALSE before the JUMP leads here.
AtRightOfOr ==
  /\ Running
  /\ InstructionAt(top_frame(VM).ip - 6)
  /\ At(frame_chunk(VM).code, top_frame(VM).ip - 6) = OpCode.JumpIfFalse
  /\ At(frame_chunk(VM).code, top_frame(VM).ip - 3) = OpCode.Jump
  /\ jump_target(frame_chunk(VM), top_frame(VM).ip - 6) = top_frame(VM).ip

\* C32: JUMP_IF_FALSE leaves the stack as it is and jumps exactly when the
\* top is nil or false, so the left operand of `and` is the result when it is
\* falsey and that of `or`, which the JUMP then carries over the right
\* operand, when it is not; the right operand of `and` is entered only with a
\* left operand that is not falsey on the stack, that of `or` only with one
\* that is, and at the end the stack has the height it had with the left
\* operand on it.
C32_ShortCircuitKeepsOneValue ==
  /\ [][At_(OpCode.JumpIfFalse) =>
          /\ status' = "running"
          /\ stack' = stack
          /\ Len(frames') = Len(frames)
          /\ Last(frames').ip =
               IF TopIsNilOrFalse
                 THEN jump_target(frame_chunk(VM), top_frame(VM).ip)
                 ELSE top_frame(VM).ip + 3]_vars
  /\ [][At_(OpCode.Jump) => stack' = stack]_vars
  /\ [](BehindJumpIfFalse => ~TopIsNilOrFalse)
  /\ [](AtRightOfOr => TopIsNilOrFalse)
  /\ [](At_(OpCode.JumpIfFalse) =>
          At(StackHeights(frame_closure(VM).function),
             jump_target(frame_chunk(VM), top_frame(VM).ip))
            = {Len(stack) - top_frame(VM).slot_offset})

\* say was called for 3 and nil after `and`, for 4, false and 5 after `or`,
\* and for no other operand; t is 2 and u is false.
C32_RightOperandsSaid ==
  /\ session = Session_logic /\ line = 4 /\ status = "Ok"
  /\ out = << <<"nil">>, <<"false">>, <<"number", 3>>, <<"number", 3>>,
              <<"nil">>, <<"nil">>,
              <<"number", 4>>, <<"number", 4>>, <<"false">>, <<"false">>,
              <<"number", 0>>, <<"string", "s">>, <<"true">>,
              <<"number", 2>>, <<"false">> >>

\* The step is a call that may report an error and does nothing else to the
\* flags of the parser.
MayReport ==
  \/ Consume("Semicolon", "Expect ';' after value.")
  \/ Error("Can't return from top-level code.")

\* The step is synchronize, or a handler that ends in it or has declarations
\* in it.
MaySynchronize ==
  DeclarationTurn \/ MethodTurn \/ EndBlock \/ EndClass \/ Synchronize

\* C33: an error is reported only out of panic mode and sets panic_mode and
\* had_error; in panic mode nothing is reported and the mode stays, until a
\* synchronize; synchronize leaves the parser out of panic mode, unless the
\* scanner gave it an error token to report, so that the declarations after
\* it report their own errors; had_error stays once set, and compile returns
\* Err exactly when something was reported.
C33_OneErrorUntilSynchronize ==
  /\ [](compiler.had_error <=> compiler.errors # <<>>)
  /\ [][/\ compiler.had_error => compiler'.had_error
        /\ Len(compiler'.errors) >= Len(compiler.errors)
        /\ SubSeq(compiler'.errors, 1, Len(compiler.errors)) = compiler.errors]_vars
  /\ [][compiler.panic_mode /\ ~MaySynchronize =>
          /\ compiler'.panic_mode
          /\ compiler'.errors = compiler.errors]_vars
  /\ [][MayReport /\ compiler'.errors # compiler.errors =>
          /\ ~compiler.panic_mode
          /\ compiler'.panic_mode /\ compiler'.had_error
          /\ Len(compiler'.errors) = Len(compiler.errors) + 1]_vars
  /\ [][(DeclarationTurn \/ EndBlock \/ EndClass \/ Synchronize)
          /\ compiler'.panic_mode =>
          /\ compiler'.errors # compiler.errors
          /\ Last(compiler'.errors) = <<Unexpected.lexeme>>]_vars
  /\ [][Finish => (compiler'.ret.ok <=> compiler.errors = <<>>)]_vars

\* `print 1 + ; print ) ; var x = 3 ;` has been compiled: each print reported
\* its mistake, the second after the synchronize of the first, and compile
\* returned Err.
C33_SecondErrorAfterSynchronize ==
  /\ compiler.fcs = <<>>
  /\ compiler.tokens[1] = Token("Print", "print")
  /\ compiler.errors = << <<"Expect expression.">>, <<"Expect expression.">> >>
  /\ ~compiler.panic_mode
  /\ ~compiler.ret.ok

\* The braces that open class bodies: `class Name {` and
\* `class Name < Superclass {`.
ClassBodies(tokens) ==
  {b \in 3 .. Len(tokens) :
     /\ tokens[b].type = "LeftBrace"
     /\ \/ tokens[b - 2].type = "Class"
        \/ b > 4 /\ tokens[b - 2].type = "Less" /\ tokens[b - 4].type = "Class"}

\* The class bodies that are open at token i.
ClassBodiesAround(tokens, i) ==
  LET depth == BraceDepths(tokens, 1, Len(tokens), 0) IN
  {b \in ClassBodies(tokens) :
     b < i /\ \A k \in b .. i - 1 : depth[k] >= depth[b]}

\* What is wrong with the `this` or `super` that is token i, "" if nothing is:
\* the innermost class around it is the one whose body opened last.
Misuse(tokens, i) ==
  LET around == ClassBodiesAround(tokens, i)
      innermost == CHOOSE b \in around : \A other \in around : other <= b
  IN IF tokens[i].type = "This"
       THEN IF around = {} THEN "Can't use 'this' outside of a class." ELSE ""
     ELSE IF tokens[i].type = "Super"
       THEN IF around = {} THEN "Can't use 'super' outside of a class."
            ELSE IF tokens[innermost - 2].type # "Less"
              THEN "Can't use 'super' in a class with no superclass."
              ELSE ""
     ELSE ""

Misuses(tokens) ==
  {i \in DOMAIN tokens : Misuse(tokens, i) # ""}

\* C34: a source with `this` outside every class body, or with `super`
\* outside every class body or in a class body whose class, the innermost
\* around it, has no superclass, does not compile, and the first such mistake
\* is reported; the compiler reports such a mistake only where the source
\* has one, after a nested class declaration and after the last one as well.
C34_ThisAndSuperNeedTheirClass ==
  [][line' = line + 1 =>
       LET tokens == session[line + 1]
           reported == {Compiled.errors[k][1] : k \in DOMAIN Compiled.errors}
           first == CHOOSE i \in Misuses(tokens) :
                      \A other \in Misuses(tokens) : i <= other
       IN /\ Misuses(tokens) # {} =>
               ~Compiled.ok /\ Misuse(tokens, first) \in reported
          /\ \A message \in {"Can't use 'this' outside of a class.",
                             "Can't use 'super' outside of a class.",
                             "Can't use 'super' in a class with no superclass."} :
               message \in reported =>
                 \E i \in Misuses(tokens) : Misuse(tokens, i) = message]_vars

\* The six sources with a mistake have been rejected, each for its own:
\* `super` in C, inside B < A, for C has no superclass; D and F, with classes
\* declared inside their methods and `this` and `super` after them, compiled,
\* and their methods have run.
C34_RejectedAndCompiled ==
  /\ session = Session_this_super /\ line = 9 /\ status = "Ok"
  /\ err = << <<"Can't use 'this' outside of a class.">>,
              <<"Can't use 'this' outside of a class.">>,
              <<"Can't use 'super' outside of a class.">>,
              <<"Can't use 'super' in a class with no superclass.">>,
              <<"Can't use 'super' in a class with no superclass.">>,
              <<"Can't use 'this' outside of a class.">> >>
  /\ out = << <<"D", " instance">>, <<"<fn ", "m", ">">> >>

\* The loop of synchronize goes on.
SynchronizeGoesOn(c) ==
  /\ c.current.type # "Eof"
  /\ c.previous.type # "Semicolon"
  /\ c.current.type \notin
       {"Class", "Fun", "Var", "For", "If", "While", "Print", "Return"}

\* A loop of the compiler has ended: that of compile at Eof, that of block
\* and that over the methods at `}` or at Eof.
LoopEnds ==
  /\ Compiling
  /\ check(compiler, "Eof") \/ check(compiler, "RightBrace")
  /\ check(compiler, "Eof") \/ compiler.classes # <<>>
        \/ current_fc(compiler).scope_depth > 0

\* C35: compile returns on every source: a turn of the loop of compile or of
\* block, taken when the current token is not Eof nor, in a block, `}`, and a
\* turn of the loop over the methods, taken when it is neither, take at least
\* one token from the scanner; so does a turn of the loop of synchronize,
\* which ends at Eof, after a `;` or before a keyword that begins a
\* statement; the scanner gives no more tokens than the source has, no step
\* takes one back, and every step is seen in Progress; until compile has
\* returned a loop goes on or ends, and in the end compile has returned.
C35_CompileReturns ==
  /\ [](compiler.pos <= Len(compiler.tokens))
  /\ [](DeclarationsGoOn => declaration(compiler).pos > compiler.pos)
  /\ [](MethodsGoOn => method(compiler).pos > compiler.pos)
  /\ [](Compiling /\ SynchronizeGoesOn(compiler) =>
          advance(compiler).pos > compiler.pos)
  /\ [](Compiling /\ compiler.panic_mode =>
          ~SynchronizeGoesOn(synchronize(compiler)))
  /\ [](Compiling => DeclarationsGoOn \/ MethodsGoOn \/ LoopEnds)
  /\ [][compiler'.pos >= compiler.pos /\ Progress' # Progress]_vars
  /\ <>(~Compiling)

\* compile has returned on the source with the class: the scanner has given
\* all its tokens, in two turns of the loop over the methods.
C35_ReturnedAfterTheMethods ==
  /\ ~Compiling
  /\ compiler.tokens[1] = Token("Class", "class")
  /\ compiler.pos = Len(compiler.tokens)
  /\ compiler.classes = <<>>
  /\ Len(compiler.ret.function.chunk.constants) > 2

====
